---- MODULE Spec2Model ----
(***************************************************************************)
(* A state-machine model of the CSV analysis agent: the CSV Loader         *)
(* (data_io/csv_loader.py), the buffer memory manager                      *)
(* (core/memory_manager.py) and the Agent Builder's query pipeline         *)
(* (core/agent_builder.py) behind the CSV Agent facade                     *)
(* (agents/csv_agent.py).                                                  *)
(*                                                                         *)
(* Texts whose characters matter (paths, questions put to the follow-up    *)
(* heuristic) are sequences of one-character strings; other texts are      *)
(* strings.                                                                *)
(***************************************************************************)
EXTENDS Integers, Sequences, FiniteSets, TLC

VARIABLES
    dataframe,      \* CSVLoader._dataframe
    file_path,      \* CSVLoader._file_path
    metadata,       \* CSVLoader._metadata
    load_result,    \* what the last CSVLoader.load_csv call did
    history,        \* BufferMemoryManager._conversation_history
    chat,           \* BufferMemoryManager._langchain_memory.chat_memory.messages
    session,        \* BufferMemoryManager._session_metadata
    adds,           \* number of add_interaction calls since construction / clear
    column_context, \* AgentBuilder._column_context
    executor,       \* AgentBuilder.agent_executor (the prompt it was built from)
    usage,          \* ToolManager._execution_stats
    enabled,        \* ToolConfig.enabled_tools the registry was constructed with
    tools,          \* the names of ToolManager._tools, in registration order
    successes,      \* per tool, the calls whose execute returned, since construction
    tool_result,    \* what the last ToolManager.execute_tool call returned
    manager,        \* what MemoryManagerFactory.create_memory_manager produced
    llm,            \* the language model handed to CSVLoader and QueryContext, if any
    returned,       \* what the last direct call of a read operation returned
    browser,        \* the browser application: st.session_state and its temporary files
    console,        \* the console application: where run_interactive_mode stands
    pc,             \* position inside AgentBuilder.query
    cur,            \* the query in progress
    snap,           \* memory as it was when the query in progress began
    trace,          \* external calls made by the query in progress
    response,       \* what the last query returned (or raised)
    lastOp,         \* the operation that produced this state
    question,       \* the text put to is_follow_up_question
    follow_up       \* its last result

vars == <<dataframe, file_path, metadata, load_result, history, chat, session,
          adds, column_context, executor, usage, pc, cur, snap, trace,
          response, lastOp, question, follow_up, enabled, tools, successes,
          tool_result, manager, llm, returned, browser, console>>

loaderVars == <<dataframe, file_path, metadata>>
memoryVars == <<history, chat, session, adds>>
builderVars == <<column_context, executor, usage>>
queryVars == <<pc, cur, snap, trace, response>>
followVars == <<question, follow_up>>
toolVars == <<enabled, tools, successes, tool_result>>
uiVars == <<browser, console>>

\* Python's None, for each kind of optional value
NoFrame == [kind |-> "none"]
NoMeta == [kind |-> "none"]
NoPath == <<>>

(***************************************************************************)
(* Text helpers                                                            *)
(***************************************************************************)
\* the lower-case letter of each upper-case letter
ToLower ==
    [A |-> "a", B |-> "b", C |-> "c", D |-> "d", E |-> "e", F |-> "f", G |-> "g",
     H |-> "h", I |-> "i", J |-> "j", K |-> "k", L |-> "l", M |-> "m", N |-> "n",
     O |-> "o", P |-> "p", Q |-> "q", R |-> "r", S |-> "s", T |-> "t", U |-> "u",
     V |-> "v", W |-> "w", X |-> "x", Y |-> "y", Z |-> "z"]

\* str.lower() on one character
LowerChar(c) == IF c \in DOMAIN ToLower THEN ToLower[c] ELSE c

\* str.lower()
Lower(s) == [i \in DOMAIN s |-> LowerChar(s[i])]

\* str.endswith(suffix)
EndsWith(s, suffix) ==
    /\ Len(s) >= Len(suffix)
    /\ SubSeq(s, Len(s) - Len(suffix) + 1, Len(s)) = suffix

\* `sub in s` for strings
Contains(s, sub) ==
    \E i \in 1..(Len(s) - Len(sub) + 1) : SubSeq(s, i, i + Len(sub) - 1) = sub

\* pathlib.Path(p).name: the part after the last "/"
PathName(p) ==
    LET slashes == {i \in DOMAIN p : p[i] = "/"}
        last == IF slashes = {} THEN 0
                ELSE CHOOSE i \in slashes : \A j \in slashes : j <= i
    IN SubSeq(p, last + 1, Len(p))

(***************************************************************************)
(* The file system the loader reads.  Each file: whether it exists, its    *)
(* size in bytes, and what the parser makes of it.                         *)
(***************************************************************************)
MB == 1024 * 1024

PathSales   == <<"s", ".", "c", "s", "v">>
PathUpper   == <<"d", "/", "U", ".", "C", "S", "V">>
PathMissing == <<"m", ".", "c", "s", "v">>
PathNotes   == <<"n", ".", "t", "x", "t">>
PathShort   == <<"c", "s", "v">>
PathHuge    == <<"h", ".", "c", "s", "v">>
PathBad     == <<"x", ".", "c", "s", "v">>

Paths == {PathSales, PathUpper, PathMissing, PathNotes, PathShort, PathHuge, PathBad}

\* the name the browser application gives the copy it writes of an upload
TempPrefix == <<"t", "e", "m", "p", "_">>
TempName(name) == TempPrefix \o name

\* the file a path holds the bytes of: a temporary copy holds those of the
\* upload it was written from
Origin(p) ==
    IF Len(p) > Len(TempPrefix) /\ SubSeq(p, 1, Len(TempPrefix)) = TempPrefix
    THEN SubSeq(p, Len(TempPrefix) + 1, Len(p))
    ELSE p

\* os.path.exists, at the time a path is handed to the loader
Exists(p) == p # PathMissing

\* os.path.getsize: PathUpper is exactly at the limit, PathHuge one byte over
GetSize(p) ==
    CASE Origin(p) = PathHuge  -> 100 * MB + 1
      [] Origin(p) = PathUpper -> 100 * MB
      [] OTHER                 -> 2048

\* whether pandas can parse the file's text as delimited data
Parseable(p) == Origin(p) # PathBad

\* the table the parser yields for a file
FrameOf(p) ==
    IF Origin(p) = PathUpper
    THEN [kind |-> "frame", shape |-> <<3, 1>>, columns |-> <<"name">>,
          dtypes |-> <<"object">>]
    ELSE [kind |-> "frame", shape |-> <<2, 2>>, columns |-> <<"id", "amount">>,
          dtypes |-> <<"int64", "float64">>]

\* caller-supplied read options (**kwargs): none, or chunksize=N, with which
\* pandas.read_csv returns an iterator over chunks instead of a table
ReadOptions == {"default", "chunksize"}

\* pd.read_csv(file_path, **read_kwargs)
ReadCsv(p, opts) ==
    IF opts = "chunksize" THEN [kind |-> "reader"] ELSE FrameOf(p)

(***************************************************************************)
(* CSVLoader                                                               *)
(***************************************************************************)
max_file_size_mb == 100

\* _validate_file without its size check
validate_file_unsized(p) ==
    IF ~Exists(p) THEN "FileNotFoundError"
    ELSE IF ~EndsWith(Lower(p), <<".", "c", "s", "v">>) THEN "ValueError:extension"
    ELSE "ok"

\* CSVLoader._validate_file: "ok" or the exception raised
validate_file(p) ==
    IF ~Exists(p) THEN "FileNotFoundError"
    ELSE IF ~EndsWith(Lower(p), <<".", "c", "s", "v">>) THEN "ValueError:extension"
    ELSE IF GetSize(p) > max_file_size_mb * MB THEN "ValueError:size"
    ELSE "ok"

\* CSVLoader._generate_metadata on a table held under path p
generate_metadata(df, p) ==
    [kind      |-> "metadata",
     file_path |-> p,
     file_name |-> PathName(p),
     shape     |-> df.shape,
     columns   |-> df.columns,
     dtypes    |-> df.dtypes]

\* CSVLoader.is_loaded
is_loaded == dataframe # NoFrame

\* CSVLoader.load_csv: the loader's fields after the call and the value returned.
\* stage: how far the call got ("validate", "parse", "metadata", "done").
load_csv_on(df0, path0, meta0, p, opts) ==
    IF validate_file(p) # "ok"
    THEN [df |-> df0, path |-> path0, meta |-> meta0,
          ok |-> FALSE, stage |-> "validate", parsed |-> FALSE]
    ELSE IF ~Parseable(p)
    THEN [df |-> df0, path |-> path0, meta |-> meta0,
          ok |-> FALSE, stage |-> "parse", parsed |-> TRUE]
    ELSE IF ReadCsv(p, opts).kind # "frame"
    THEN \* self._dataframe and self._file_path are already assigned when
         \* _generate_metadata raises on the object that is not a table
         [df |-> ReadCsv(p, opts), path |-> p, meta |-> meta0,
          ok |-> FALSE, stage |-> "metadata", parsed |-> TRUE]
    ELSE [df |-> ReadCsv(p, opts), path |-> p,
          meta |-> generate_metadata(ReadCsv(p, opts), p),
          ok |-> TRUE, stage |-> "done", parsed |-> TRUE]

\* CSVLoader.load_csv on the loader as it is now
load_csv(p, opts) == load_csv_on(dataframe, file_path, metadata, p, opts)

NoLoad == [path |-> NoPath, opts |-> "default", ok |-> FALSE, stage |-> "none",
           parsed |-> FALSE, before |-> <<NoFrame, NoPath, NoMeta>>,
           returned |-> [kind |-> "none"]]

InitLoader ==
    /\ dataframe = NoFrame
    /\ file_path = NoPath
    /\ metadata = NoMeta
    /\ load_result = NoLoad

\* the language model a component is constructed with: none, or a chat model
NoLLM == [kind |-> "none"]
ChatLLM == [kind |-> "chat_model"]

\* AgentBuilder.__init__, lines 38-45: the loader and the query context are
\* handed the LLM manager's model
InitLLM == llm = ChatLLM

\* nothing was returned yet
NoReturn == [kind |-> "none"]

(***************************************************************************)
(* CSVLoader: measures and dimensions                                      *)
(***************************************************************************)
\* the characters of each column name
ColumnChars ==
    [id |-> <<"i", "d">>, amount |-> <<"a", "m", "o", "u", "n", "t">>,
     name |-> <<"n", "a", "m", "e">>]

\* pd.api.types.is_numeric_dtype on the dtypes the parser yields
is_numeric_dtype(dtype) == dtype \in {"int64", "float64"}

\* the fallback classification: numeric and not named "...id" is a measure
heuristic_column_type(column_name, dtype) ==
    IF is_numeric_dtype(dtype) /\ ~EndsWith(Lower(ColumnChars[column_name]), <<"i", "d">>)
    THEN "measure"
    ELSE "dimension"

\* what one structured LLM call for a column comes back with: a tag, or it raises
LLMReplies == {"measure", "dimension", "raises"}

\* CSVLoader._analyze_column_with_llm and _generate_llm_column_description: the
\* column type
analyze_column_with_llm(model, column_name, dtype, reply) ==
    IF model # NoLLM /\ reply # "raises"
    THEN reply
    ELSE heuristic_column_type(column_name, dtype)

\* CSVLoader.get_column_info for the i-th column of a table
get_column_info(model, df, i, reply) ==
    [name        |-> df.columns[i],
     dtype       |-> df.dtypes[i],
     column_type |-> analyze_column_with_llm(model, df.columns[i], df.dtypes[i], reply)]

\* the names of the columns that one pass over the table's columns, with one
\* get_column_info call per column, finds to be of the given type
columns_of_type(model, df, replies, column_type) ==
    LET infos == [i \in DOMAIN df.columns |-> get_column_info(model, df, i, replies[i])]
        kept  == SelectSeq(infos, LAMBDA info : info.column_type = column_type)
    IN [i \in DOMAIN kept |-> kept[i].name]

\* CSVLoader.get_analytics_summary: get_measures makes one pass over the columns
\* (replies first), get_dimensions a second one (replies second); on the
\* iterator a chunked read leaves behind, reading .columns raises
get_analytics_summary(model, df, first, second) ==
    IF df = NoFrame
    THEN [kind |-> "summary", measures |-> <<>>, dimensions |-> <<>>,
          summary |-> <<"No data loaded">>]
    ELSE IF df.kind # "frame"
    THEN [kind |-> "raised", error |-> "AttributeError"]
    ELSE LET measures   == columns_of_type(model, df, first, "measure")
             dimensions == columns_of_type(model, df, second, "dimension")
         IN [kind |-> "summary", measures |-> measures, dimensions |-> dimensions,
             measure_count |-> Len(measures), dimension_count |-> Len(dimensions),
             total_columns |-> Len(df.columns),
             summary |-> <<"Dataset has ", Len(measures), " measures and ",
                           Len(dimensions), " dimensions">>]

\* the replies of one pass over the columns of the loaded table; without a
\* model no call is made
PassReplies ==
    IF dataframe = NoFrame \/ dataframe.kind # "frame" \/ llm = NoLLM
    THEN {<<>>}
    ELSE [DOMAIN dataframe.columns -> LLMReplies]

\* a direct call of CSVLoader.get_analytics_summary
GetAnalyticsSummary ==
    \E first \in PassReplies, second \in PassReplies :
        /\ pc = "idle"
        /\ returned' = [kind |-> "analytics_summary", first |-> first, second |-> second,
                        value |-> get_analytics_summary(llm, dataframe, first, second)]
        /\ lastOp' = "get_analytics_summary"
        /\ load_result' = NoLoad
        /\ UNCHANGED <<loaderVars, memoryVars, builderVars, queryVars,
                       followVars, toolVars, manager, llm, uiVars>>

(***************************************************************************)
(* BufferMemoryManager.  A memory is the record of its three fields:       *)
(* history (the Conversation Entries), chat (the messages of the LangChain *)
(* chat memory) and session (the session metadata).                        *)
(***************************************************************************)
max_interactions == 30
RecentKept == 10

Text(s) == [kind |-> "text", text |-> s]
HumanMessage(content) == [role |-> "human", content |-> content]
AIMessage(content) == [role |-> "ai", content |-> content]

NoSummary == [kind |-> "none"]
NoMetadata == [kind |-> "empty"]

\* BufferMemoryManager.__init__
FreshSession == [question_count |-> 0, csv_file |-> NoPath, csv_summary |-> NoSummary]
FreshMemory == [history |-> <<>>, chat |-> <<>>, session |-> FreshSession]

\* the memory manager as it is now
Memory == [history |-> history, chat |-> chat, session |-> session]

ConversationEntry(human_message, ai_response, md) ==
    [human_message |-> human_message, ai_response |-> ai_response, metadata |-> md]

\* seq[-n:]
LastN(seq, n) == IF Len(seq) <= n THEN seq ELSE SubSeq(seq, Len(seq) - n + 1, Len(seq))

\* the user and assistant turns of a list of entries, in order
Turns(entries) ==
    [i \in 1..(2 * Len(entries)) |->
        IF i % 2 = 1
        THEN HumanMessage(Text(entries[(i + 1) \div 2].human_message))
        ELSE AIMessage(Text(entries[i \div 2].ai_response))]

\* _rebuild_langchain_memory without the clear() that opens it
rebuild_without_clear(m) ==
    [m EXCEPT !.chat = @ \o Turns(LastN(m.history, RecentKept))]

\* BufferMemoryManager._rebuild_langchain_memory
rebuild_langchain_memory(m) ==
    [m EXCEPT !.chat = Turns(LastN(m.history, RecentKept))]

\* _manage_memory_size that never discards
manage_memory_size_unbounded(m) == m

\* BufferMemoryManager._manage_memory_size
manage_memory_size(m) ==
    IF Len(m.history) > max_interactions
    THEN rebuild_langchain_memory(
            [m EXCEPT !.history =
                SubSeq(m.history, Len(m.history) - max_interactions + 1, Len(m.history))])
    ELSE m

\* BufferMemoryManager.add_interaction
add_interaction(m, human_message, ai_response, md) ==
    manage_memory_size(
        [history |-> Append(m.history, ConversationEntry(human_message, ai_response, md)),
         chat    |-> m.chat \o <<HumanMessage(Text(human_message)),
                                 AIMessage(Text(ai_response))>>,
         session |-> [m.session EXCEPT !.question_count = @ + 1]])

\* clear_memory that empties the lists and keeps the session metadata
clear_memory_keeping_session(m) == [history |-> <<>>, chat |-> <<>>, session |-> m.session]

\* BufferMemoryManager.clear_memory
clear_memory(m) == [history |-> <<>>, chat |-> <<>>, session |-> FreshSession]

\* the text "Analyzing CSV file: <csv_file>\n\nData summary:\n<csv_summary>"
ContextMessage(csv_file, csv_summary) ==
    [kind |-> "csv_context", file |-> csv_file, summary |-> csv_summary]

\* set_csv_context that records the file in the session metadata only
set_csv_context_silent(m, csv_file, csv_summary) ==
    [history |-> m.history,
     chat    |-> m.chat,
     session |-> [m.session EXCEPT !.csv_file = csv_file, !.csv_summary = csv_summary]]

\* BufferMemoryManager.set_csv_context
set_csv_context(m, csv_file, csv_summary) ==
    [history |-> m.history,
     chat    |-> Append(m.chat, AIMessage(ContextMessage(csv_file, csv_summary))),
     session |-> [m.session EXCEPT !.csv_file = csv_file, !.csv_summary = csv_summary]]

\* BufferMemoryManager.get_memory_summary
get_memory_summary(m) ==
    [total_interactions |-> Len(m.history),
     question_count     |-> m.session.question_count,
     csv_file           |-> m.session.csv_file,
     memory_type        |-> "buffer",
     has_context        |-> Len(m.history) > 0]

\* BufferMemoryManager.get_conversation_context: the text as its list of lines
get_conversation_context(m) ==
    IF m.history = <<>>
    THEN <<"No previous conversation.">>
    ELSE LET recent == LastN(m.history, 5) IN
         <<"Previous conversation:">> \o
         [i \in 1..(2 * Len(recent)) |->
            IF i % 2 = 1
            THEN "Q" \o ToString((i + 1) \div 2) \o ": " \o recent[(i + 1) \div 2].human_message
            ELSE "A" \o ToString(i \div 2) \o ": " \o recent[i \div 2].ai_response]

\* MemoryType, the memory types the configuration declares
MemoryTypes == {"buffer", "summary", "sliding_window"}

\* MemoryManagerFactory.create_memory_manager: the manager built, or the
\* exception raised
create_memory_manager(memory_type) ==
    IF memory_type = "buffer"
    THEN [requested |-> memory_type, kind |-> "BufferMemoryManager"]
    ELSE IF memory_type = "summary"
    THEN [requested |-> memory_type, kind |-> "BufferMemoryManager"]
    ELSE [requested |-> memory_type, kind |-> "raised", exception |-> "ValueError"]

\* AgentBuilder.__init__, line 44: the memory manager the factory builds for
\* the configured memory type, with nothing stored
InitMemoryOf(memory_type) ==
    /\ manager = create_memory_manager(memory_type)
    /\ history = FreshMemory.history
    /\ chat = FreshMemory.chat
    /\ session = FreshMemory.session
    /\ adds = 0

\* MemoryConfig.memory_type defaults to buffer
InitMemory == InitMemoryOf("buffer")

\* the memory manager's fields become those of m
SetMemory(m) ==
    /\ history' = m.history
    /\ chat' = m.chat
    /\ session' = m.session

(***************************************************************************)
(* BufferMemoryManager.is_follow_up_question                               *)
(***************************************************************************)
follow_up_indicators ==
    << <<"a","l","s","o">>,
       <<"t","o","o">>,
       <<"a","n","d">>,
       <<"w","h","a","t"," ","a","b","o","u","t">>,
       <<"h","o","w"," ","a","b","o","u","t">>,
       <<"c","a","n"," ","y","o","u">>,
       <<"t","e","l","l"," ","m","e"," ","m","o","r","e">>,
       <<"e","x","p","l","a","i","n">>,
       <<"w","h","y">>,
       <<"t","h","a","t">>,
       <<"t","h","i","s">>,
       <<"i","t">>,
       <<"t","h","e","m">>,
       <<"t","h","o","s","e">>,
       <<"t","h","e","s","e">> >>

\* the characters str.split() treats as separators
IsSpace(c) == c \in {" ", "\t", "\n"}

\* str.split(): the maximal runs of non-blank characters, in order
RECURSIVE SplitFrom(_, _, _)
SplitFrom(s, i, word) ==
    IF i > Len(s)
    THEN IF word = <<>> THEN <<>> ELSE <<word>>
    ELSE IF IsSpace(s[i])
    THEN (IF word = <<>> THEN <<>> ELSE <<word>>) \o SplitFrom(s, i + 1, <<>>)
    ELSE SplitFrom(s, i + 1, Append(word, s[i]))

Split(s) == SplitFrom(s, 1, <<>>)

\* the loop over the indicators, returning at the first one found
RECURSIVE AnyIndicatorFrom(_, _)
AnyIndicatorFrom(question_lower, k) ==
    IF k > Len(follow_up_indicators) THEN FALSE
    ELSE IF Contains(question_lower, follow_up_indicators[k]) THEN TRUE
    ELSE AnyIndicatorFrom(question_lower, k + 1)

\* is_follow_up_question matching the indicators against the question as typed
is_follow_up_question_as_typed(m, q) ==
    IF m.history = <<>> THEN FALSE
    ELSE IF AnyIndicatorFrom(q, 1) THEN TRUE
    ELSE Len(Split(q)) < 5

\* BufferMemoryManager.is_follow_up_question
is_follow_up_question(m, q) ==
    IF m.history = <<>> THEN FALSE
    ELSE IF AnyIndicatorFrom(Lower(q), 1) THEN TRUE
    ELSE Len(Split(q)) < 5

(***************************************************************************)
(* Questions put to the heuristic: up to MaxWords words of a small         *)
(* vocabulary, joined by one separator.                                    *)
(***************************************************************************)
MaxWords == 5

Vocabulary ==
    { <<"W","h","a","t">>,
      <<"a","b","o","u","t">>,
      <<"c","I","T","y">> }

Separators == { <<" ">>, <<" ", "\t">> }

RECURSIVE Join(_, _)
Join(words, sep) ==
    IF words = <<>> THEN <<>>
    ELSE IF Len(words) = 1 THEN words[1]
    ELSE words[1] \o sep \o Join(Tail(words), sep)

WordLists == UNION {[1..n -> Vocabulary] : n \in 0..MaxWords}

Questions == {Join(ws, sep) : ws \in WordLists, sep \in Separators}

NotAsked == [asked |-> FALSE, result |-> FALSE]

(***************************************************************************)
(* Direct calls on the memory manager                                      *)
(***************************************************************************)
MaxAdds == 32
MaxContexts == 1
MaxFollowAdds == 1

Serial(prefix, n) == prefix \o ToString(n)

\* the file names and summaries CSVAgent.load_csv passes to set_csv_context
DataSummary(meta) ==
    [kind |-> "summary", file_name |-> meta.file_name,
     shape |-> meta.shape, columns |-> meta.columns]

LoadablePaths == {p \in Paths : validate_file(p) = "ok" /\ Parseable(p)}

ContextsIn(messages) ==
    Cardinality({i \in DOMAIN messages : messages[i].content.kind = "csv_context"})

MemoryCall(m, op) ==
    /\ pc = "idle"
    /\ manager.kind = "BufferMemoryManager"
    /\ SetMemory(m)
    /\ lastOp' = op
    /\ UNCHANGED <<loaderVars, load_result, builderVars, queryVars, toolVars, manager, llm, returned, uiVars>>

\* add_interaction(human_message, ai_response) with no metadata
AddCall(limit) ==
    /\ session.question_count < limit
    /\ MemoryCall(add_interaction(Memory, Serial("Q", adds + 1), Serial("A", adds + 1),
                                  NoMetadata),
                  "add_interaction")
    /\ adds' = adds + 1
    /\ UNCHANGED followVars

MemAdd == AddCall(MaxAdds)

FollowAdd == AddCall(MaxFollowAdds)

MemClear ==
    /\ MemoryCall(clear_memory(Memory), "clear_memory")
    /\ adds' = 0
    /\ UNCHANGED followVars

SetCsvCall(paths, limit) ==
    \E p \in paths :
        LET meta == generate_metadata(FrameOf(p), p) IN
        /\ ContextsIn(chat) < limit
        /\ MemoryCall(set_csv_context(Memory, meta.file_name, DataSummary(meta)),
                      "set_csv_context")
        /\ UNCHANGED <<adds, followVars, toolVars, manager, llm, returned, uiVars>>

MemSetCsv == SetCsvCall(LoadablePaths, MaxContexts)

FollowSetCsv == SetCsvCall({PathSales}, MaxContexts)

FollowAsk ==
    /\ pc = "idle"
    /\ follow_up' = [asked |-> TRUE, result |-> is_follow_up_question(Memory, question)]
    /\ lastOp' = "is_follow_up_question"
    /\ UNCHANGED <<loaderVars, load_result, memoryVars, builderVars, queryVars, question,
                   toolVars, manager, llm, returned, uiVars>>

(***************************************************************************)
(* ToolManager: the usage counters                                         *)
(***************************************************************************)
enabled_tools ==
    <<"get_data_summary", "get_column_info", "sort_data", "filter_data",
      "group_and_aggregate", "get_basic_stats", "get_analytics_classification",
      "list_measures", "list_dimensions">>

\* the tools _register_default_tools instantiates, by name, in order
default_tools ==
    <<"get_data_summary", "get_column_info", "sort_data", "filter_data",
      "group_and_aggregate", "get_basic_stats", "get_analytics_classification",
      "list_measures", "list_dimensions">>

Range(seq) == {seq[i] : i \in DOMAIN seq}

\* the subsequence of seq whose elements are in the set keep
RECURSIVE Keep(_, _)
Keep(seq, keep) ==
    IF seq = <<>> THEN <<>>
    ELSE IF seq[1] \in keep THEN <<seq[1]>> \o Keep(Tail(seq), keep)
    ELSE Keep(Tail(seq), keep)

\* _register_default_tools that registers every default tool
register_default_tools_all(allowlist) == default_tools

\* ToolManager._register_default_tools: the names registered, in order
register_default_tools(allowlist) == Keep(default_tools, Range(allowlist))

\* ToolManager.get_available_tools
get_available_tools == tools

RegisteredTools == Range(register_default_tools(enabled_tools))

\* ToolManager.register_tool: every registered tool starts with a count of 0
InitialUsage == [t \in RegisteredTools |-> 0]

\* the allowlists a Tool Configuration is given
Allowlists ==
    {enabled_tools,
     <<"get_data_summary", "search_data", "get_value_counts">>,
     <<>>}

\* ToolManager._execute_tool_with_tracking: the counter moves only when the
\* tool's execute returned
execute_tool_with_tracking(stats, tool_name, tool_returns) ==
    IF tool_returns THEN [stats EXCEPT ![tool_name] = @ + 1] ELSE stats

NoToolResult == [kind |-> "none"]

NoCsvText == "No CSV data is currently loaded. Please load a CSV file first."

\* the argument texts handed to a tool
ToolArgs == {"", "amount"}

\* the exception a tool's execute raises on a loaded dataset
ToolErrors == {"KeyError"}

\* CSVAnalysisTool.validate_csv_loaded
validate_csv_loaded == is_loaded

\* <Tool>.execute(arg): every tool returns the fixed text while no dataset is
\* loaded; on a dataset it returns its report, or raises (fails)
tool_execute(tool_name, arg, fails) ==
    IF ~validate_csv_loaded
    THEN [kind |-> "returned", text |-> <<NoCsvText>>]
    ELSE IF fails
    THEN [kind |-> "raised", error |-> CHOOSE e \in ToolErrors : TRUE]
    ELSE [kind |-> "returned", text |-> <<"report of ", tool_name, arg>>]

ToolExecutionResult(tool_name, success, result, md) ==
    [kind |-> "ToolExecutionResult", tool_name |-> tool_name, success |-> success,
     result |-> result, metadata |-> md]

\* execute_tool that counts a call before it knows the call succeeded
execute_tool_counting_calls(stats, names, tool_name, arg, out) ==
    IF tool_name \notin Range(names)
    THEN [stats  |-> stats,
          result |-> ToolExecutionResult(tool_name, FALSE,
                        <<"Tool '", tool_name, "' not found. Available: ", names>>,
                        [kind |-> "empty"])]
    ELSE IF out.kind = "returned"
    THEN [stats  |-> [stats EXCEPT ![tool_name] = @ + 1],
          result |-> ToolExecutionResult(tool_name, TRUE, out.text, [args |-> arg])]
    ELSE [stats  |-> [stats EXCEPT ![tool_name] = @ + 1],
          result |-> ToolExecutionResult(tool_name, FALSE, <<"Error: ", out.error>>,
                        [error |-> out.error])]

\* ToolManager.execute_tool: the counters after the call and the result returned
execute_tool(stats, names, tool_name, arg, out) ==
    IF tool_name \notin Range(names)
    THEN [stats  |-> stats,
          result |-> ToolExecutionResult(tool_name, FALSE,
                        <<"Tool '", tool_name, "' not found. Available: ", names>>,
                        [kind |-> "empty"])]
    ELSE IF out.kind = "returned"
    THEN [stats  |-> [stats EXCEPT ![tool_name] = @ + 1],
          result |-> ToolExecutionResult(tool_name, TRUE, out.text, [args |-> arg])]
    ELSE [stats  |-> stats,
          result |-> ToolExecutionResult(tool_name, FALSE, <<"Error: ", out.error>>,
                        [error |-> out.error])]

(***************************************************************************)
(* AgentBuilder                                                            *)
(***************************************************************************)
MaxChat == 2
MaxUsage == 1

UserQuestions == {"q1", "q2"}
Answers == {"a1"}

NoContext == [kind |-> "none"]
NoResponse == [kind |-> "none"]
NoQuery == [question |-> "", transcript |-> <<>>, verdict |-> "none",
            reasoning |-> "", loop |-> "none", error |-> "",
            answer |-> "", used_tools |-> <<>>]

\* the texts of the exceptions the external services raise
ExceptionTexts == {"rate limit", "timeout"}

\* AgentBuilder._initialize_agent: the execution loop is built from the system
\* prompt, which embeds the column context, and is handed the memory manager's
\* chat memory object
initialize_agent(ctx) ==
    [prompt_context |-> IF ctx = NoContext THEN [kind |-> "no_csv_loaded"] ELSE ctx,
     memory         |-> "chat_memory"]

\* CSVAgent._gather_full_column_context: the report on the loaded table
gather_full_column_context(meta) ==
    [kind |-> "column_context", file_name |-> meta.file_name, columns |-> meta.columns]

\* the transcript query() builds for the classifier: messages 2k-1 and 2k of the
\* chat history paired as "Human: ..." / "Assistant: ...", an odd last one dropped
Transcript(messages) ==
    [k \in 1..(Len(messages) \div 2) |->
        [Human |-> messages[2 * k - 1].content, Assistant |-> messages[2 * k].content]]

DeclineAnswer == "No CSV file is currently loaded. Please load a CSV file first."
RedirectAnswer == "I can only answer questions about the loaded CSV data."

QueryResponse(answer, is_csv_related, used_tools, md) ==
    [kind |-> "response", answer |-> answer, is_csv_related |-> is_csv_related,
     used_tools |-> used_tools, metadata |-> md]

Raised(exception) == [kind |-> "raised", exception |-> exception]

\* query() without its opening check
NoCsvLoaded_unchecked == FALSE

\* query(), line 170: the check that opens query()
NoCsvLoaded == ~is_loaded

\* query(), lines 171-175
DeclineResponse == QueryResponse(DeclineAnswer, FALSE, <<>>, [kind |-> "none"])

\* the out-of-scope response without the classifier's reasoning
OutOfScopeResponse_bare(reasoning) ==
    QueryResponse(RedirectAnswer, FALSE, <<>>, [kind |-> "none"])

\* query(), lines 191-197
OutOfScopeResponse(reasoning) ==
    QueryResponse(RedirectAnswer, FALSE, <<>>, [classification_reasoning |-> reasoning])

\* the error response marked as not about the CSV
ErrorResponse_unrelated(exception) ==
    QueryResponse("Error processing question: " \o exception, FALSE, <<>>,
                  [error |-> exception])

\* query(), lines 237-244
ErrorResponse(exception) ==
    QueryResponse("Error processing question: " \o exception, TRUE, <<>>,
                  [error |-> exception])

\* the classifier's call moved inside the try block
ClassifierFailure_caught(exception) == ErrorResponse(exception)

\* query(), line 189: the classifier is called outside the try block, so what it
\* raises leaves query() as it is
ClassifierFailure(exception) == Raised(exception)

\* query(), lines 227-235
AnswerResponse(answer, used_tools, reasoning) ==
    QueryResponse(answer, TRUE, used_tools, [classification_reasoning |-> reasoning])

\* the tools one run of the execution loop may call
ToolRuns == {<<>>, <<"get_data_summary">>}

\* the record of the last query is dropped when another operation runs
ForgetQuery ==
    /\ pc' = "idle"
    /\ cur' = NoQuery
    /\ snap' = [memory |-> FreshMemory, usage |-> InitialUsage]
    /\ trace' = <<>>
    /\ response' = NoResponse

\* query(), lines 169-187: the no-CSV short circuit, else the transcript is built
QueryBeginOf(q) ==
        /\ pc = "idle"
        /\ lastOp' = "query"
        /\ snap' = [memory |-> Memory, usage |-> usage]
        /\ trace' = <<>>
        /\ IF NoCsvLoaded
           THEN /\ response' = DeclineResponse
                /\ pc' = "idle"
                /\ cur' = [NoQuery EXCEPT !.question = q]
           ELSE /\ response' = NoResponse
                /\ pc' = "classify"
                /\ cur' = [NoQuery EXCEPT !.question = q, !.transcript = Transcript(chat)]
        /\ load_result' = NoLoad
        /\ UNCHANGED <<loaderVars, memoryVars, builderVars, followVars, toolVars, manager, llm, returned, uiVars>>

\* AgentBuilder.query(question), its first step
QueryBegin == \E q \in UserQuestions : QueryBeginOf(q)

\* query(), lines 189-197: the scope classifier answers in scope, out of scope,
\* or its call raises
Classify ==
    \E verdict \in {"in_scope", "out_of_scope", "raises"}, e \in ExceptionTexts :
        /\ pc = "classify"
        /\ trace' = Append(trace, "classifier")
        /\ lastOp' = "query"
        /\ CASE verdict = "raises" ->
                  /\ response' = ClassifierFailure(e)
                  /\ pc' = "idle"
                  /\ cur' = [cur EXCEPT !.verdict = verdict, !.error = e]
             [] verdict = "out_of_scope" ->
                  /\ response' = OutOfScopeResponse("not about the data")
                  /\ pc' = "idle"
                  /\ cur' = [cur EXCEPT !.verdict = verdict,
                                        !.reasoning = "not about the data"]
             [] verdict = "in_scope" ->
                  /\ response' = response
                  /\ pc' = "execute"
                  /\ cur' = [cur EXCEPT !.verdict = verdict, !.reasoning = "about the data"]
        /\ UNCHANGED <<loaderVars, load_result, memoryVars, builderVars, snap, followVars, toolVars, manager, llm, returned, uiVars>>

\* what the execution loop does with the chat memory object it was built with,
\* when its run ends with an output: the chain saves the input and the output
\* as a user turn and an assistant turn
executor_saves(messages, input, output) ==
    messages \o <<HumanMessage(Text(input)), AIMessage(Text(output))>>

\* query(), lines 201-215 and 237-244: agent_executor.invoke returns an output and
\* the steps it took, or raises
ExecLoop ==
    \E run \in ToolRuns, tool_returns \in BOOLEAN, answer \in Answers,
       raises \in BOOLEAN, e \in ExceptionTexts :
        /\ pc = "execute"
        /\ \A i \in DOMAIN run : usage[run[i]] < MaxUsage
        /\ (run = <<>>) => tool_returns
        /\ (~raises) => Len(chat) <= MaxChat
        /\ trace' = Append(trace, "executor")
        /\ lastOp' = "query"
        /\ usage' = IF run = <<>> THEN usage
                    ELSE execute_tool_with_tracking(usage, run[1], tool_returns)
        /\ successes' = IF run = <<>> \/ ~tool_returns THEN successes
                        ELSE [successes EXCEPT ![run[1]] = @ + 1]
        /\ IF raises
           THEN /\ response' = ErrorResponse(e)
                /\ pc' = "idle"
                /\ cur' = [cur EXCEPT !.loop = "raised", !.error = e]
                /\ chat' = chat
           ELSE /\ response' = response
                /\ pc' = "record"
                /\ cur' = [cur EXCEPT !.loop = "returned", !.answer = answer,
                                      !.used_tools = run]
                /\ chat' = executor_saves(chat, cur.question, answer)
        /\ UNCHANGED <<loaderVars, load_result, history, session, adds,
                       column_context, executor, snap, followVars,
                       enabled, tools, tool_result, manager, llm, returned, uiVars>>

\* query(), lines 217-235: the exchange is recorded and the response returned
Record ==
    /\ pc = "record"
    /\ SetMemory(add_interaction(Memory, cur.question, cur.answer,
                    [used_tools |-> cur.used_tools,
                     classification_reasoning |-> cur.reasoning]))
    /\ adds' = adds + 1
    /\ trace' = Append(trace, "add_interaction")
    /\ response' = AnswerResponse(cur.answer, cur.used_tools, cur.reasoning)
    /\ pc' = "idle"
    /\ lastOp' = "query"
    /\ UNCHANGED <<loaderVars, load_result, builderVars, cur, snap, followVars, toolVars, manager, llm, returned, uiVars>>

\* AgentBuilder.get_status
get_status ==
    [csv_loaded      |-> is_loaded,
     csv_file        |-> file_path,
     memory_summary  |-> get_memory_summary(Memory),
     available_tools |-> get_available_tools,
     is_initialized  |-> executor # [kind |-> "none"]]

\* AgentBuilder.clear_conversation
ClearConversation ==
    /\ pc = "idle"
    /\ SetMemory(clear_memory(Memory))
    /\ adds' = 0
    /\ lastOp' = "clear_conversation"
    /\ load_result' = NoLoad
    /\ ForgetQuery
    /\ UNCHANGED <<loaderVars, builderVars, followVars, toolVars, manager, llm, returned, uiVars>>

\* AgentBuilder.set_column_context
set_column_context(ctx) == [column_context |-> ctx, executor |-> initialize_agent(ctx)]

(***************************************************************************)
(* Direct calls on the CSV Loader                                          *)
(***************************************************************************)
\* a direct call of CSVLoader.load_csv
LoaderLoad ==
    \E p \in Paths, opts \in ReadOptions :
        LET r == load_csv(p, opts) IN
        /\ pc = "idle"
        /\ dataframe' = r.df
        /\ file_path' = r.path
        /\ metadata' = r.meta
        /\ load_result' = [path |-> p, opts |-> opts, ok |-> r.ok,
                           stage |-> r.stage, parsed |-> r.parsed,
                           before |-> <<dataframe, file_path, metadata>>,
                           returned |-> [kind |-> "bool", value |-> r.ok]]
        /\ lastOp' = "loader.load_csv"
        /\ tool_result' = NoToolResult
        /\ returned' = NoReturn
        /\ UNCHANGED <<memoryVars, builderVars, queryVars, followVars, enabled, tools,
                       successes, manager, llm, uiVars>>

\* CSVLoader.clear
LoaderClear ==
    /\ pc = "idle"
    /\ dataframe' = NoFrame
    /\ file_path' = NoPath
    /\ metadata' = NoMeta
    /\ lastOp' = "loader.clear"
    /\ load_result' = NoLoad
    /\ tool_result' = NoToolResult
    /\ returned' = NoReturn
    /\ ForgetQuery
    /\ UNCHANGED <<memoryVars, builderVars, followVars, enabled, tools, successes,
                   manager, llm, uiVars>>

(***************************************************************************)
(* Direct calls on the Tool Registry                                       *)
(***************************************************************************)
MaxToolCalls == 2

\* the names callers ask for: a tool without arguments, one with a column
\* argument, one with several, and a name that is not a default tool
CallNames == {"get_data_summary", "get_column_info", "sort_data", "search_data"}

RECURSIVE SumOf(_, _)
SumOf(f, S) ==
    IF S = {} THEN 0
    ELSE LET t == CHOOSE x \in S : TRUE IN f[t] + SumOf(f, S \ {t})

\* ToolManager.execute_tool(tool_name, arg)
ExecuteTool ==
    \E tool_name \in CallNames, arg \in ToolArgs, fails \in BOOLEAN :
        LET out == tool_execute(tool_name, arg, fails)
            r   == execute_tool(usage, tools, tool_name, arg, out)
            ran == tool_name \in Range(tools) /\ out.kind = "returned"
        IN
        /\ pc = "idle"
        /\ ran => SumOf(successes, DOMAIN successes) < MaxToolCalls
        /\ usage' = r.stats
        /\ successes' = IF ran THEN [successes EXCEPT ![tool_name] = @ + 1]
                        ELSE successes
        /\ tool_result' = r.result
        /\ lastOp' = "execute_tool"
        /\ load_result' = NoLoad
        /\ ForgetQuery
        /\ UNCHANGED <<loaderVars, memoryVars, column_context, executor, followVars,
                       enabled, tools, manager, llm, returned, uiVars>>

\* a call through the wrapper the execution loop is given:
\* ToolManager._execute_tool_with_tracking(tool_name, arg)
TrackedCall ==
    \E tool_name \in Range(tools), arg \in ToolArgs, fails \in BOOLEAN :
        LET out == tool_execute(tool_name, arg, fails)
            ran == out.kind = "returned"
        IN
        /\ pc = "idle"
        /\ ran => SumOf(successes, DOMAIN successes) < MaxToolCalls
        /\ usage' = execute_tool_with_tracking(usage, tool_name, ran)
        /\ successes' = IF ran THEN [successes EXCEPT ![tool_name] = @ + 1]
                        ELSE successes
        /\ tool_result' = NoToolResult
        /\ lastOp' = "tracked_call"
        /\ load_result' = NoLoad
        /\ ForgetQuery
        /\ UNCHANGED <<loaderVars, memoryVars, column_context, executor, followVars,
                       enabled, tools, manager, llm, returned, uiVars>>

(***************************************************************************)
(* QueryContext: suggested questions                                       *)
(***************************************************************************)
Digits == <<"0", "1", "2", "3", "4", "5", "6", "7", "8", "9">>

\* str.isdigit on one character
isdigit(c) == c \in Range(Digits)

\* the decimal digits of a number below 100
DigitsOf(n) ==
    IF n < 10 THEN <<Digits[n + 1]>> ELSE <<Digits[(n \div 10) + 1], Digits[(n % 10) + 1]>>

\* str.startswith
StartsWith(s, prefix) ==
    Len(s) >= Len(prefix) /\ SubSeq(s, 1, Len(prefix)) = prefix

\* str.find, counted from 1; 0 when the text is not there
Find(s, sub) ==
    LET hits == {i \in 1..(Len(s) - Len(sub) + 1) : SubSeq(s, i, i + Len(sub) - 1) = sub}
    IN IF hits = {} THEN 0 ELSE CHOOSE i \in hits : \A j \in hits : i <= j

\* str.strip
Strip(s) ==
    LET inked == {i \in DOMAIN s : s[i] # " "}
    IN IF inked = {} THEN <<>>
       ELSE SubSeq(s, CHOOSE i \in inked : \A j \in inked : i <= j,
                      CHOOSE i \in inked : \A j \in inked : j <= i)

\* _parse_llm_questions, the body of its loop: the question a line holds, or
\* <<>> when the line is passed over
parse_line(raw) ==
    LET line == Strip(raw)
        marked == line # <<>> /\ (isdigit(line[1]) \/ StartsWith(line, <<"-", " ">>))
        dot == Find(line, <<".", " ">>)
        body == IF dot > 0 THEN Strip(SubSeq(line, dot + 2, Len(line)))
                ELSE IF StartsWith(line, <<"-", " ">>) THEN Strip(SubSeq(line, 3, Len(line)))
                ELSE <<>>
        mark == Find(body, <<"?">>)
        found == IF mark > 0 THEN SubSeq(body, 1, mark) ELSE body
    IN IF marked /\ Len(found) > 10 /\ Len(found) < 200
          /\ found[Len(found)] = "?"
       THEN found
       ELSE <<>>

\* questions[:10]
FirstN(seq, n) == IF Len(seq) <= n THEN seq ELSE SubSeq(seq, 1, n)

\* QueryContext._parse_llm_questions on the lines of the reply
parse_llm_questions(lines) ==
    FirstN(SelectSeq([i \in DOMAIN lines |-> parse_line(lines[i])],
                     LAMBDA q : q # <<>>), 10)

LoadFirst == <<"Please load a CSV file first to get question suggestions.">>
UnableToSuggest == <<"Dataset loaded but unable to generate suggestions.">>

\* 'int' in dtype.lower() or 'float' in dtype.lower()
is_numeric_name(dtype) == dtype \in {"int64", "float64"}

\* QueryContext._generate_basic_suggestions
generate_basic_suggestions(df, meta) ==
    IF df = NoFrame THEN <<LoadFirst>>
    ELSE IF meta = NoMeta THEN <<UnableToSuggest>>
    ELSE
    LET columns == meta.columns
        numeric == SelectSeq([i \in DOMAIN columns |->
                                 IF is_numeric_name(meta.dtypes[i]) THEN columns[i] ELSE ""],
                             LAMBDA c : c # "")
        categorical == SelectSeq([i \in DOMAIN columns |->
                                     IF meta.dtypes[i] = "object" THEN columns[i] ELSE ""],
                                 LAMBDA c : c # "")
    IN FirstN(
        << <<"What is the summary of this dataset?">>,
           <<"How many rows and columns are in the data?">>,
           <<"What are the column names and their data types?">> >>
        \o (IF columns # <<>>
            THEN << <<"Tell me about the '", columns[1], "' column">>,
                    <<"What are the unique values in '", columns[1], "'?">> >>
            ELSE <<>>)
        \o (IF numeric # <<>>
            THEN << <<"What are the statistics for '", numeric[1], "'?">> >>
            ELSE <<>>)
        \o (IF categorical # <<>>
            THEN << <<"What are the value counts for '", categorical[1], "'?">>,
                    <<"Search for specific data in the dataset">> >>
            ELSE <<>>), 10)

\* what llm.invoke(prompt) does: it raises, or returns a reply, given as its lines
LLMRaises == [kind |-> "raises"]
LLMNotCalled == [kind |-> "not_called"]
LLMReply(lines) == [kind |-> "reply", lines |-> lines]

\* suggest_questions that hands out whatever questions the reply held
suggest_questions_partial(model, df, meta, outcome) ==
    IF df = NoFrame THEN <<LoadFirst>>
    ELSE IF model = NoLLM THEN generate_basic_suggestions(df, meta)
    ELSE IF meta = NoMeta THEN <<UnableToSuggest>>
    ELSE IF df.kind # "frame" \/ outcome.kind # "reply"
    THEN generate_basic_suggestions(df, meta)
    ELSE IF parse_llm_questions(outcome.lines) # <<>>
    THEN parse_llm_questions(outcome.lines)
    ELSE generate_basic_suggestions(df, meta)

\* QueryContext.suggest_questions.  Inside its try block get_analytics_summary
\* and df.head(3) raise on the iterator a chunked read leaves behind, and
\* llm.invoke may raise; each lands in the except branch
suggest_questions(model, df, meta, outcome) ==
    IF df = NoFrame THEN <<LoadFirst>>
    ELSE IF model = NoLLM THEN generate_basic_suggestions(df, meta)
    ELSE IF meta = NoMeta THEN <<UnableToSuggest>>
    ELSE IF df.kind # "frame" \/ outcome.kind # "reply"
    THEN generate_basic_suggestions(df, meta)
    ELSE IF Len(parse_llm_questions(outcome.lines)) = 10
    THEN parse_llm_questions(outcome.lines)
    ELSE generate_basic_suggestions(df, meta)

\* lines a model's reply may hold
QuestionLine(n) == DigitsOf(n) \o <<".", " ">> \o <<"W", "h", "a", "t", " ", "i", "s", " ", "t", "h", "e", " ", "a", "v", "e", "r", "a", "g", "e", " ", "a", "m", "o", "u", "n", "t", "?">>
DashLine == <<"-", " ", "H", "o", "w", " ", "m", "a", "n", "y", " ", "i", "d", "s", " ", "a", "r", "e", " ", "t", "h", "e", "r", "e", "?">>
ProseLine == <<"H", "e", "r", "e", " ", "a", "r", "e", " ", "1", "0", " ", "q", "u", "e", "s", "t", "i", "o", "n", "s", ":">>
ShortLine == <<" ", "3", ".", " ", "W", "h", "y", "?">>
PlainLine == <<"4", ".", " ", "S", "u", "m", " ", "t", "h", "e", " ", "a", "m", "o", "u", "n", "t", " ", "c", "o", "l", "u", "m", "n">>
TrailingLine == <<"5", ".", " ", "W", "h", "a", "t", " ", "i", "s", " ", "t", "h", "e", " ", "t", "o", "p", " ", "i", "d", "?", " ", "(", "b", "y", " ", "a", "m", "o", "u", "n", "t", ")">>

MaxLines == 11

OddLines == {<<>>, <<ProseLine>>, <<ShortLine>>, <<DashLine>>, <<PlainLine>>, <<TrailingLine>>}

\* replies: some unnumbered or malformed line, then no numbered question, or
\* nearly as many as MaxLines
Replies ==
    {LLMReply(odd \o [i \in 1..n |-> QuestionLine(i)]) :
        odd \in OddLines, n \in {0} \cup ((MaxLines - 2)..MaxLines)}

\* what the model does in one call of suggest_questions: it is reached only
\* with a model attached and a table with metadata loaded
Outcomes ==
    IF llm = NoLLM \/ dataframe = NoFrame \/ metadata = NoMeta \/ dataframe.kind # "frame"
    THEN {LLMNotCalled}
    ELSE {LLMRaises} \cup Replies

\* a call of QueryContext.suggest_questions
SuggestQuestions ==
    \E outcome \in Outcomes :
        /\ pc = "idle"
        /\ returned' = [kind |-> "suggestions", outcome |-> outcome,
                        value |-> suggest_questions(llm, dataframe, metadata, outcome)]
        /\ lastOp' = "suggest_questions"
        /\ load_result' = NoLoad
        /\ UNCHANGED <<loaderVars, memoryVars, builderVars, queryVars,
                       followVars, toolVars, manager, llm, uiVars>>

(***************************************************************************)
(* CSVVisualizer                                                           *)
(***************************************************************************)
\* AnalysisType
AnalysisTypes == {"distribution", "sum", "average", "count"}

\* raise ValueError(f"<Role> '<column>' not found in dataframe columns: [...]")
ColumnNotFound(role, column, columns) ==
    [kind |-> "raised", error |-> "ValueError", rendered |-> FALSE,
     message |-> <<role, " '", column, "' not found in dataframe columns: ">>,
     listed  |-> columns]

\* one of the _plot_* methods ran: a figure was drawn
Plotted(method, dimension, measure) ==
    [kind |-> "returned", rendered |-> TRUE, method |-> method,
     dimension |-> dimension, measure |-> measure]

\* CSVVisualizer.analyze_and_plot(dataframe, dimension, measure, analysis_type)
analyze_and_plot(df, dimension, measure, analysis_type) ==
    IF df.kind # "frame"
    THEN [kind |-> "raised", error |-> "AttributeError", rendered |-> FALSE,
          message |-> <<"object has no attribute 'columns'">>, listed |-> <<>>]
    ELSE IF analysis_type # "distribution" /\ analysis_type # "count"
            /\ dimension \notin Range(df.columns)
    THEN ColumnNotFound("Dimension", dimension, df.columns)
    ELSE IF analysis_type # "count" /\ measure \notin Range(df.columns)
    THEN ColumnNotFound("Measure", measure, df.columns)
    ELSE IF analysis_type = "count" /\ dimension \notin Range(df.columns)
    THEN ColumnNotFound("Dimension", dimension, df.columns)
    ELSE IF analysis_type = "distribution" /\ measure \notin Range(df.columns)
    THEN ColumnNotFound("Measure", measure, df.columns)
    ELSE IF analysis_type = "distribution"
    THEN Plotted("_plot_distribution", "", measure)
    ELSE IF analysis_type = "sum"
    THEN Plotted("_plot_aggregation:sum", dimension, measure)
    ELSE IF analysis_type = "average"
    THEN Plotted("_plot_aggregation:mean", dimension, measure)
    ELSE IF analysis_type = "count"
    THEN Plotted("_plot_count", dimension, "")
    ELSE [kind |-> "raised", error |-> "ValueError", rendered |-> FALSE,
          message |-> <<"Unsupported analysis type: ", analysis_type>>, listed |-> <<>>]

\* the requests callers make: no column, a column of the table, a column of no
\* table; a supported analysis or another word
PlotColumns == {"", "id", "amount", "name", "region"}
PlotTypes == AnalysisTypes \cup {"median"}

\* a call of analyze_and_plot on what the loader holds
AnalyzeAndPlot ==
    \E dimension \in PlotColumns, measure \in PlotColumns, analysis_type \in PlotTypes :
        /\ pc = "idle"
        /\ returned' = [kind |-> "plot", dimension |-> dimension, measure |-> measure,
                        analysis_type |-> analysis_type,
                        value |-> analyze_and_plot(dataframe, dimension, measure,
                                                   analysis_type)]
        /\ lastOp' = "analyze_and_plot"
        /\ load_result' = NoLoad
        /\ UNCHANGED <<loaderVars, memoryVars, builderVars, queryVars,
                       followVars, toolVars, manager, llm, uiVars>>

(***************************************************************************)
(* GroupAndAggregateTool                                                   *)
(***************************************************************************)
\* the pandas function and the wording for each operation word, lines 306-320
AggregationOf ==
    [sum            |-> [func |-> "sum", wording |-> "Sum of ", numeric |-> TRUE],
     average        |-> [func |-> "mean", wording |-> "Average of ", numeric |-> TRUE],
     avg            |-> [func |-> "mean", wording |-> "Average of ", numeric |-> TRUE],
     count_distinct |-> [func |-> "nunique", wording |-> "Count distinct of ",
                         numeric |-> FALSE],
     count          |-> [func |-> "nunique", wording |-> "Count distinct of ",
                         numeric |-> FALSE]]

\* the suffix a result column gets for each pandas function, lines 336-343
RenameSuffix == [sum |-> "_sum", mean |-> "_avg", nunique |-> "_count_distinct"]

\* the dtype of a column of a table
DtypeOf(df, col) ==
    df.dtypes[CHOOSE i \in DOMAIN df.columns : df.columns[i] = col]

\* the text a specification is turned down with, or <<>> when it is accepted
spec_error(df, spec) ==
    LET col == spec[1]
        operation == spec[2]
    IN IF col \notin Range(df.columns)
       THEN <<"Aggregation column '", col, "' not found. Available columns: ">>
       ELSE IF operation \notin DOMAIN AggregationOf
       THEN <<"Invalid operation '", operation, "'. Use: sum, average, or count_distinct.">>
       ELSE IF AggregationOf[operation].numeric /\ ~is_numeric_dtype(DtypeOf(df, col))
       THEN <<"Cannot ", IF AggregationOf[operation].func = "sum" THEN "sum" ELSE "average",
              " non-numeric column '", col,
              "'. Use count_distinct instead.">>
       ELSE <<>>

\* agg_dict after the loop over accepted specifications: the columns in the
\* order of their first specification, each with the function of its last one
RECURSIVE agg_keys(_)
agg_keys(specs) ==
    IF specs = <<>> THEN <<>>
    ELSE LET front == agg_keys(SubSeq(specs, 1, Len(specs) - 1))
             col == specs[Len(specs)][1]
         IN IF col \in Range(front) THEN front ELSE Append(front, col)

agg_func(specs, col) ==
    LET last == CHOOSE i \in DOMAIN specs :
                    /\ specs[i][1] = col
                    /\ \A j \in DOMAIN specs : specs[j][1] = col => j <= i
    IN AggregationOf[specs[last][2]].func

TextResult(text) == [kind |-> "text", text |-> text]

\* GroupAndAggregateTool.execute on the comma-separated lists already split:
\* group_cols the names to group by, specs the <<column, operation>> pairs
group_and_aggregate(df, group_cols, specs) ==
    IF df = NoFrame THEN TextResult(<<NoCsvText>>)
    ELSE IF group_cols = <<>>
    THEN TextResult(<<"Please provide columns to group by (comma-separated list).">>)
    ELSE IF df.kind # "frame" THEN [kind |-> "raised", error |-> "AttributeError"]
    ELSE IF \E i \in DOMAIN group_cols : group_cols[i] \notin Range(df.columns)
    THEN TextResult(<<"Group by columns not found: ">>)
    ELSE IF specs = <<>>
    THEN TextResult(<<"Please provide aggregations in format 'column:operation' (comma-separated list).">>)
    ELSE IF \E i \in DOMAIN specs : spec_error(df, specs[i]) # <<>>
    THEN TextResult(spec_error(df, specs[CHOOSE i \in DOMAIN specs :
                        /\ spec_error(df, specs[i]) # <<>>
                        /\ \A j \in 1..(i - 1) : spec_error(df, specs[j]) = <<>>]))
    ELSE LET keys == agg_keys(specs) IN
         IF Range(keys) \cap Range(group_cols) # {}
         THEN TextResult(<<"Error performing groupby operation: ">>)
         ELSE IF df.shape[1] = 0
         THEN TextResult(<<"No data found after grouping. Check your column names and values.">>)
         ELSE [kind         |-> "grouped",
               grouped_by   |-> group_cols,
               aggregations |-> [i \in DOMAIN specs |->
                                    <<AggregationOf[specs[i][2]].wording, specs[i][1]>>],
               columns      |-> [i \in DOMAIN group_cols |-> <<group_cols[i], "">>]
                                \o [i \in DOMAIN keys |->
                                       <<keys[i], RenameSuffix[agg_func(specs, keys[i])]>>]]

MaxSpecs == 2

GroupColumns == {<<>>, <<"id">>, <<"region">>}
SpecColumns == {"id", "amount", "name"}
SpecOperations == {"sum", "average", "count_distinct", "median"}
SpecLists == UNION {[1..n -> SpecColumns \X SpecOperations] : n \in 0..MaxSpecs}

\* a call of GroupAndAggregateTool.execute
GroupAndAggregate ==
    \E group_cols \in GroupColumns, specs \in SpecLists :
        /\ pc = "idle"
        /\ returned' = [kind |-> "group_and_aggregate", group_cols |-> group_cols,
                        specs |-> specs,
                        value |-> group_and_aggregate(dataframe, group_cols, specs)]
        /\ lastOp' = "group_and_aggregate"
        /\ load_result' = NoLoad
        /\ UNCHANGED <<loaderVars, memoryVars, builderVars, queryVars,
                       followVars, toolVars, manager, llm, uiVars>>

(***************************************************************************)
(* The tool objects the execution loop is given                            *)
(***************************************************************************)
\* the positional parameters each tool's execute takes besides self: the
\* fewest and the most
Signature ==
    [get_data_summary             |-> <<0, 0>>,
     get_column_info              |-> <<1, 1>>,
     sort_data                    |-> <<1, 2>>,
     filter_data                  |-> <<2, 2>>,
     group_and_aggregate          |-> <<2, 2>>,
     get_basic_stats              |-> <<0, 1>>,
     get_analytics_classification |-> <<0, 0>>,
     list_measures                |-> <<0, 0>>,
     list_dimensions              |-> <<0, 0>>]

\* self._tools[tool_name].execute(*args): the call raises TypeError before the
\* body of execute runs unless the number of arguments fits its parameters
bind_execute(tool_name, args, fails) ==
    IF Len(args) < Signature[tool_name][1] \/ Len(args) > Signature[tool_name][2]
    THEN [kind |-> "raised", error |-> "TypeError"]
    ELSE tool_execute(tool_name, args, fails)

\* register_tool: the arguments the tool object passes on.  The three tools
\* with an input schema pass their two fields; every other tool passes the one
\* free-text input the execution loop calls it with
wrapper_args(tool_name, first, second) ==
    IF tool_name \in {"group_and_aggregate", "sort_data", "filter_data"}
    THEN <<first, second>>
    ELSE <<first>>

\* ToolManager._execute_tool_with_tracking(tool_name, *args): the counters after
\* the call and the text returned
tracked(stats, tool_name, out) ==
    [stats |-> execute_tool_with_tracking(stats, tool_name, out.kind = "returned"),
     text  |-> IF out.kind = "returned" THEN out.text
               ELSE <<"Error executing tool '", tool_name, "': ", out.error>>]

\* the execution loop invokes a registered tool through its tool object
WrapperCall ==
    \E tool_name \in Range(tools), first \in ToolArgs, second \in ToolArgs,
       fails \in BOOLEAN :
        LET args == wrapper_args(tool_name, first, second)
            out  == bind_execute(tool_name, args, fails)
            r    == tracked(usage, tool_name, out)
            ran  == out.kind = "returned"
        IN
        /\ pc = "idle"
        /\ ran => SumOf(successes, DOMAIN successes) < MaxToolCalls
        /\ usage' = r.stats
        /\ successes' = IF ran THEN [successes EXCEPT ![tool_name] = @ + 1]
                        ELSE successes
        /\ tool_result' = [kind |-> "wrapper", tool_name |-> tool_name, args |-> args,
                           fails |-> fails, text |-> r.text, before |-> usage]
        /\ lastOp' = "wrapper_call"
        /\ load_result' = NoLoad
        /\ ForgetQuery
        /\ UNCHANGED <<loaderVars, memoryVars, column_context, executor, followVars,
                       enabled, tools, manager, llm, returned, uiVars>>

(***************************************************************************)
(* CSVAgent                                                                *)
(***************************************************************************)
\* st.session_state after init_session_state, with no temporary file written
NoSession ==
    [agent |-> FALSE, csv_uploaded |-> FALSE, messages |-> <<>>,
     suggested_questions |-> <<>>, temp_files |-> {}, pc |-> "idle",
     asked |-> "", upload |-> "none"]

\* the console application before its interactive loop
NoConsole ==
    [pc |-> "init", input |-> <<>>, asked |-> "", shown |-> <<>>, raised |-> "",
     left_by |-> "none"]

\* the Load-CSV Result of a load that succeeded (csv_agent.py, lines 66-70)
LoadSuccess(meta) ==
    [kind |-> "LoadCSVResult", success |-> TRUE,
     message |-> <<"Successfully loaded ", meta.file_name>>, metadata |-> meta]

\* a failure result that hands out whatever metadata the loader still holds
LoadFailure_stale ==
    [kind |-> "LoadCSVResult", success |-> FALSE,
     message |-> <<"Failed to load CSV file">>, metadata |-> metadata]

\* the Load-CSV Result of a load that failed (csv_agent.py, lines 71-76)
LoadFailure ==
    [kind |-> "LoadCSVResult", success |-> FALSE,
     message |-> <<"Failed to load CSV file">>, metadata |-> NoMeta]

\* CSVAgent.load_csv(file_path, **kwargs)
AgentLoadOf(p, opts) ==
        LET r == load_csv(p, opts)
            built == set_column_context(gather_full_column_context(r.meta))
        IN
        /\ pc = "idle"
        /\ r.ok => Len(chat) <= MaxChat
        /\ dataframe' = r.df
        /\ file_path' = r.path
        /\ metadata' = r.meta
        /\ load_result' = [path |-> p, opts |-> opts, ok |-> r.ok,
                           stage |-> r.stage, parsed |-> r.parsed,
                           before |-> <<dataframe, file_path, metadata>>,
                           returned |-> IF r.ok THEN LoadSuccess(r.meta)
                                        ELSE LoadFailure]
        /\ lastOp' = "load_csv"
        /\ IF r.ok
           THEN /\ SetMemory(set_csv_context(Memory, r.meta.file_name, DataSummary(r.meta)))
                /\ column_context' = built.column_context
                /\ executor' = built.executor
           ELSE UNCHANGED <<history, chat, session, column_context, executor>>
        /\ ForgetQuery
        /\ UNCHANGED <<adds, usage, followVars, toolVars, manager, llm, returned, uiVars>>

AgentLoad == \E p \in Paths, opts \in ReadOptions : AgentLoadOf(p, opts)

\* ToolManager.__init__ with the given allowlist
InitTools(allowlist) ==
    /\ enabled = allowlist
    /\ tools = register_default_tools(allowlist)
    /\ usage = [t \in Range(register_default_tools(allowlist)) |-> 0]
    /\ successes = [t \in Range(register_default_tools(allowlist)) |-> 0]
    /\ tool_result = NoToolResult

(***************************************************************************)
(* The browser application (app/streamlit_app.py)                          *)
(***************************************************************************)
MaxMessages == 1

\* the files a user uploads: one that loads, one over the size limit, one the
\* parser rejects
Uploads == {PathSales, PathHuge, PathBad}

\* the questions suggest_questions() yields
SuggestedQuestions == <<"q1">>

UserMessage(content) == [role |-> "user", content |-> content]
AssistantMessage(content) == [role |-> "assistant", content |-> content]

\* AgentBuilder.query has returned or raised
AskEnded == lastOp = "query" /\ pc = "idle"

\* handle_csv_upload with an uploaded file: the session afterwards.
\* constructs: CSVAgent(config) returned; ok: load_csv reported success.
handle_csv_upload(st, temp, constructs, ok) ==
    IF ~constructs
    THEN \* the temporary file is written, the exception is shown
         [st EXCEPT !.temp_files = @ \cup {temp}, !.upload = "exception"]
    ELSE IF ok
    THEN [st EXCEPT !.agent = TRUE, !.csv_uploaded = TRUE, !.messages = <<>>,
                         !.suggested_questions = <<>>,
                         !.temp_files = (@ \cup {temp}) \ {temp},
                         !.upload = "loaded"]
    ELSE \* result.error_message is no field of LoadCSVResult: reading it raises
         \* before the agent is dropped and before os.remove
         [st EXCEPT !.agent = TRUE, !.temp_files = @ \cup {temp},
                         !.upload = "failed"]

\* handle_csv_upload
BrowserUpload ==
    \E u \in Uploads, constructs \in BOOLEAN :
        LET temp  == TempName(u)
            r     == load_csv_on(NoFrame, NoPath, NoMeta, temp, "default")
            built == set_column_context(gather_full_column_context(r.meta))
            m     == set_csv_context(FreshMemory, r.meta.file_name, DataSummary(r.meta))
        IN
        /\ pc = "idle"
        /\ browser.pc = "idle"
        /\ ~browser.csv_uploaded
        /\ browser' = handle_csv_upload(browser, temp, constructs, r.ok)
        /\ lastOp' = "browser.upload"
        /\ ForgetQuery
        /\ IF ~constructs
           THEN UNCHANGED <<loaderVars, load_result, memoryVars, builderVars,
                            successes, tool_result>>
           ELSE /\ dataframe' = r.df
                /\ file_path' = r.path
                /\ metadata' = r.meta
                /\ load_result' = [path |-> temp, opts |-> "default", ok |-> r.ok,
                                   stage |-> r.stage, parsed |-> r.parsed,
                                   before |-> <<NoFrame, NoPath, NoMeta>>,
                                   returned |-> IF r.ok THEN LoadSuccess(r.meta)
                                                ELSE LoadFailure]
                /\ SetMemory(IF r.ok THEN m ELSE FreshMemory)
                /\ adds' = 0
                /\ column_context' = IF r.ok THEN built.column_context ELSE NoContext
                /\ executor' = IF r.ok THEN built.executor
                               ELSE initialize_agent(NoContext)
                /\ usage' = InitialUsage
                /\ successes' = InitialUsage
                /\ tool_result' = NoToolResult
        /\ UNCHANGED <<followVars, enabled, tools, manager, llm, returned, console>>

\* the frame every browser step leaves alone besides the session
BrowserFrame ==
    UNCHANGED <<loaderVars, memoryVars, builderVars, followVars, toolVars, manager, llm, returned,
                console>>

\* display_suggested_questions, lines 239-246: the questions are generated once
\* per dataset; a failure is shown as a warning
BrowserSuggest ==
    \E generates \in BOOLEAN :
        /\ pc = "idle"
        /\ browser.pc = "idle"
        /\ browser.agent /\ browser.csv_uploaded
        /\ browser.suggested_questions = <<>>
        /\ browser' = IF generates
                      THEN [browser EXCEPT !.suggested_questions = SuggestedQuestions]
                      ELSE browser
        /\ lastOp' = "browser.suggest"
        /\ load_result' = NoLoad
        /\ ForgetQuery
        /\ BrowserFrame

\* display_chat_interface, lines 210-214: a typed question joins the transcript
BrowserTyped ==
    \E q \in UserQuestions :
        /\ pc = "idle"
        /\ browser.pc = "idle"
        /\ browser.csv_uploaded
        /\ Len(browser.messages) <= MaxMessages
        /\ browser' = [browser EXCEPT !.messages = Append(@, UserMessage(q)),
                                      !.pc = "typed", !.asked = q]
        /\ lastOp' = "browser.ask"
        /\ load_result' = NoLoad
        /\ ForgetQuery
        /\ BrowserFrame

\* display_suggested_questions, lines 256-258: a suggested question's button
BrowserClick ==
    \E i \in DOMAIN browser.suggested_questions :
        /\ pc = "idle"
        /\ browser.pc = "idle"
        /\ browser.csv_uploaded
        /\ Len(browser.messages) <= MaxMessages
        /\ browser' = [browser EXCEPT
                          !.messages = Append(@, UserMessage(browser.suggested_questions[i])),
                          !.pc = "clicked", !.asked = browser.suggested_questions[i]]
        /\ lastOp' = "browser.ask"
        /\ load_result' = NoLoad
        /\ ForgetQuery
        /\ BrowserFrame

\* st.session_state.agent.ask_question(question) at work
BrowserQuery ==
    /\ browser.pc \in {"typed", "clicked"}
    /\ \/ lastOp = "browser.ask" /\ QueryBeginOf(browser.asked)
       \/ Classify
       \/ ExecLoop
       \/ Record

\* the transcript once ask_question has returned or raised: the chat input
\* catches the exception and shows it as the assistant's message (lines
\* 219-231); the button has no handler (lines 261-264)
transcript_after(st, result) ==
    IF result.kind = "response"
    THEN Append(st.messages, AssistantMessage(result.answer))
    ELSE IF st.pc = "typed"
    THEN Append(st.messages,
                AssistantMessage("Sorry, I encountered an error: " \o result.exception))
    ELSE st.messages

BrowserAnswer ==
    /\ browser.pc \in {"typed", "clicked"}
    /\ AskEnded
    /\ browser' = [browser EXCEPT !.messages = transcript_after(browser, response),
                                  !.pc = "idle", !.asked = ""]
    /\ lastOp' = "browser.answer"
    /\ load_result' = NoLoad
    /\ ForgetQuery
    /\ BrowserFrame

\* main(), lines 353-358: the "Upload New CSV File" button
BrowserNewUpload ==
    /\ pc = "idle"
    /\ browser.pc = "idle"
    /\ browser.csv_uploaded
    /\ browser' = [browser EXCEPT !.csv_uploaded = FALSE, !.agent = FALSE,
                                  !.messages = <<>>, !.suggested_questions = <<>>]
    /\ lastOp' = "browser.new_upload"
    /\ load_result' = NoLoad
    /\ ForgetQuery
    /\ BrowserFrame

(***************************************************************************)
(* The console application (app/interface.py)                              *)
(***************************************************************************)
QuitWords == {<<"q", "u", "i", "t">>, <<"e", "x", "i", "t">>, <<"q">>}

\* the reserved commands that only display something
DisplayCommands ==
    {<<"h", "e", "l", "p">>, <<"s", "t", "a", "t", "u", "s">>}

ClearCommand == <<"c", "l", "e", "a", "r">>

\* what the user types at the prompt
ConsoleInputs ==
    {<<"Q", "u", "i", "t">>, <<"e", "x", "i", "t">>, <<"Q">>, <<"H", "e", "l", "p">>,
     <<"s", "t", "a", "t", "u", "s">>, <<"C", "l", "e", "a", "r">>,
     <<"q", "1">>, <<"q", "u", "i", "t", "s">>}

\* a text given as its characters, as one string
RECURSIVE StringOf(_)
StringOf(chars) ==
    IF chars = <<>> THEN "" ELSE chars[1] \o StringOf(Tail(chars))

\* a turn whose exception leaves the loop
turn_failed_propagating(c, e) ==
    [c EXCEPT !.pc = "ended", !.raised = e, !.left_by = "exception"]

\* run_interactive_mode, lines 299-300: any other exception is displayed
turn_failed(c, e) ==
    [c EXCEPT !.pc = "prompt", !.shown = <<"Error: ", e>>, !.raised = e]

\* run_interactive_mode, lines 296-298 and 277-279: the loop is left
loop_left(c, why) ==
    [c EXCEPT !.pc = "ended", !.shown = <<"Goodbye!">>, !.left_by = why]

\* the frame every console step leaves alone besides the memory
ConsoleFrame ==
    UNCHANGED <<loaderVars, builderVars, followVars, toolVars, manager, llm, returned, browser>>

\* CSVAgentInterface.load_csv_file, before the interactive loop is started
ConsoleLoad ==
    \E p \in Paths :
        /\ console.pc = "init"
        /\ Exists(p)
        /\ AgentLoadOf(p, "default")

\* run_interactive_mode, lines 259-270: without a dataset the loop is not entered
ConsoleStart ==
    /\ pc = "idle"
    /\ console.pc = "init"
    /\ console' = IF is_loaded THEN [console EXCEPT !.pc = "prompt"]
                  ELSE [console EXCEPT !.pc = "returned", !.left_by = "not_loaded"]
    /\ lastOp' = "console.start"
    /\ load_result' = NoLoad
    /\ ForgetQuery
    /\ UNCHANGED memoryVars
    /\ ConsoleFrame

\* one pass of the loop, lines 273-294: the prompt, then the reserved command;
\* any other input is a question for the agent
ConsolePrompt ==
    \E input \in ConsoleInputs, interrupted \in BOOLEAN, fails \in BOOLEAN,
       e \in ExceptionTexts :
        LET c == [console EXCEPT !.input = input, !.raised = "", !.asked = ""] IN
        /\ pc = "idle"
        /\ console.pc = "prompt"
        /\ lastOp' = IF ~interrupted /\ Lower(input) \notin QuitWords
                         /\ Lower(input) \notin DisplayCommands
                         /\ Lower(input) # ClearCommand
                     THEN "console.ask" ELSE "console.prompt"
        /\ load_result' = NoLoad
        /\ ForgetQuery
        /\ ConsoleFrame
        /\ IF interrupted
           THEN /\ console' = loop_left(c, "interrupt")
                /\ UNCHANGED memoryVars
           ELSE IF Lower(input) \in QuitWords
           THEN /\ console' = loop_left(c, "quit")
                /\ UNCHANGED memoryVars
           ELSE IF Lower(input) \in DisplayCommands
           THEN /\ console' = IF fails THEN turn_failed(c, e)
                              ELSE [c EXCEPT !.shown = <<Lower(input)>>]
                /\ UNCHANGED memoryVars
           ELSE IF Lower(input) = ClearCommand
           THEN /\ console' = [c EXCEPT !.shown = <<"Conversation history cleared.">>]
                /\ SetMemory(clear_memory(Memory))
                /\ adds' = 0
           ELSE /\ console' = [c EXCEPT !.pc = "asking", !.asked = StringOf(input)]
                /\ UNCHANGED memoryVars

\* CSVAgentInterface.ask_question, line 236: self.agent.ask_question at work
ConsoleQuery ==
    /\ console.pc = "asking"
    /\ \/ lastOp = "console.ask" /\ QueryBeginOf(console.asked)
       \/ Classify
       \/ ExecLoop
       \/ Record

\* CSVAgentInterface.ask_question, lines 238-255, once the agent has returned
\* or raised: an answer about the data is displayed and response.follow_up,
\* which is no field of QueryResponse, is read
console_after(c, result) ==
    IF result.kind = "raised"
    THEN turn_failed(c, result.exception)
    ELSE IF result.is_csv_related
    THEN turn_failed([c EXCEPT !.shown = <<result.answer>>], "AttributeError: follow_up")
    ELSE [c EXCEPT !.pc = "prompt", !.shown = <<result.answer>>]

ConsoleShow ==
    /\ console.pc = "asking"
    /\ AskEnded
    /\ console' = console_after(console, response)
    /\ lastOp' = "console.show"
    /\ load_result' = NoLoad
    /\ ForgetQuery
    /\ UNCHANGED memoryVars
    /\ ConsoleFrame

\* a keyboard interruption while the agent is at work
ConsoleInterrupt ==
    /\ console.pc = "asking"
    /\ console' = loop_left(console, "interrupt")
    /\ lastOp' = "console.interrupt"
    /\ load_result' = NoLoad
    /\ ForgetQuery
    /\ UNCHANGED memoryVars
    /\ ConsoleFrame

InitBuilder ==
    /\ column_context = NoContext
    /\ executor = initialize_agent(NoContext)
    /\ InitTools(enabled_tools)

\* init_session_state of the browser application, and the console application
\* before run_interactive_mode is called
InitSurfaces ==
    /\ browser = NoSession
    /\ console = NoConsole

InitQuery ==
    /\ InitSurfaces
    /\ pc = "idle"
    /\ cur = NoQuery
    /\ snap = [memory |-> FreshMemory, usage |-> InitialUsage]
    /\ trace = <<>>
    /\ response = NoResponse
    /\ returned = NoReturn
    /\ lastOp = "init"

(***************************************************************************)
(* Specifications                                                          *)
(***************************************************************************)
\* the CSV Agent: loads, questions, clearing the conversation or the loader
Init ==
    /\ InitLoader /\ InitLLM /\ InitMemory /\ InitBuilder /\ InitQuery
    /\ question = <<>>
    /\ follow_up = NotAsked

Next ==
    \/ AgentLoad
    \/ LoaderClear
    \/ QueryBegin
    \/ Classify
    \/ ExecLoop
    \/ Record
    \/ ClearConversation

Spec == Init /\ [][Next]_vars

\* the CSV Loader driven directly
NextLoader == LoaderLoad \/ LoaderClear

SpecLoader == Init /\ [][NextLoader]_vars

\* the Tool Registry driven directly, constructed with some allowlist and
\* bound to a loader
InitToolManager ==
    /\ InitLoader /\ InitLLM /\ InitMemory /\ InitQuery
    /\ column_context = NoContext
    /\ executor = initialize_agent(NoContext)
    /\ question = <<>>
    /\ follow_up = NotAsked
    /\ \E allowlist \in Allowlists : InitTools(allowlist)

NextTools ==
    \/ LoaderLoad
    \/ LoaderClear
    \/ ExecuteTool
    \/ TrackedCall

SpecTools == InitToolManager /\ [][NextTools]_vars

\* the agent's tool objects invoked as the execution loop invokes them
NextWrappers ==
    \/ LoaderLoad
    \/ LoaderClear
    \/ WrapperCall

SpecWrappers == Init /\ [][NextWrappers]_vars

\* the read operations of the loader and the query context called directly,
\* with and without a language model attached
InitReads ==
    /\ InitLoader /\ InitMemory /\ InitBuilder /\ InitQuery
    /\ llm \in {NoLLM, ChatLLM}
    /\ question = <<>>
    /\ follow_up = NotAsked

NextReads ==
    \/ LoaderLoad
    \/ LoaderClear
    \/ GetAnalyticsSummary
    \/ SuggestQuestions

SpecReads == InitReads /\ [][NextReads]_vars

\* the visualizer called on whatever the loader holds
NextPlot ==
    \/ LoaderLoad
    \/ LoaderClear
    \/ AnalyzeAndPlot

SpecPlot == Init /\ [][NextPlot]_vars

\* the grouping tool called on whatever the loader holds
NextGroup ==
    \/ LoaderLoad
    \/ LoaderClear
    \/ GroupAndAggregate

SpecGroup == Init /\ [][NextGroup]_vars

\* the browser application: uploads, suggested and typed questions
NextBrowser ==
    \/ BrowserUpload
    \/ BrowserSuggest
    \/ BrowserTyped
    \/ BrowserClick
    \/ BrowserQuery
    \/ BrowserAnswer
    \/ BrowserNewUpload

SpecBrowser == Init /\ [][NextBrowser]_vars

\* the console application: loading, then the interactive loop
NextConsole ==
    \/ ConsoleLoad
    \/ ConsoleStart
    \/ ConsolePrompt
    \/ ConsoleQuery
    \/ ConsoleShow
    \/ ConsoleInterrupt

SpecConsole == Init /\ [][NextConsole]_vars

\* the memory manager driven directly
NextMem == MemAdd \/ MemClear \/ MemSetCsv

SpecMem == Init /\ [][NextMem]_vars

\* the memory manager the factory builds for each declared memory type, driven
\* directly
InitFactory ==
    /\ InitLoader /\ InitLLM /\ InitBuilder /\ InitQuery
    /\ question = <<>>
    /\ follow_up = NotAsked
    /\ \E memory_type \in MemoryTypes : InitMemoryOf(memory_type)

SpecFactory == InitFactory /\ [][NextMem]_vars

\* the follow-up heuristic on every question, with and without history
InitFollow ==
    /\ InitLoader /\ InitLLM /\ InitMemory /\ InitBuilder /\ InitQuery
    /\ question \in Questions
    /\ follow_up = NotAsked

NextFollow == FollowAdd \/ MemClear \/ FollowSetCsv \/ FollowAsk

SpecFollowUp == InitFollow /\ [][NextFollow]_vars

(***************************************************************************)
(* Properties                                                              *)
(***************************************************************************)
\* a query has just returned to (or raised into) its caller
QueryEnded == lastOp = "query" /\ pc = "idle"

C2_OutOfScopeShortCircuit ==
    (QueryEnded /\ cur.verdict = "out_of_scope") =>
        /\ dataframe # NoFrame
        /\ response.kind = "response"
        /\ response.is_csv_related = FALSE
        /\ response.used_tools = <<>>
        /\ response.metadata = [classification_reasoning |-> cur.reasoning]
        /\ trace = <<"classifier">>
        /\ usage = snap.usage
        /\ Len(history) = Len(snap.memory.history)
        /\ session.question_count = snap.memory.session.question_count
        /\ chat = snap.memory.chat

\* C2 happens: an out-of-scope question put after an earlier question was answered
C2_Witness ==
    /\ QueryEnded /\ cur.verdict = "out_of_scope"
    /\ Len(history) > 0

\* the Conversation Entry query() records for the query in progress
RecordedEntry ==
    [human_message |-> cur.question,
     ai_response   |-> cur.answer,
     metadata      |-> [used_tools |-> cur.used_tools,
                        classification_reasoning |-> cur.reasoning]]

\* C3: for an in-scope question whose execution loop returns, query appends
\* exactly one Conversation Entry (question, answer, used tools, classifier
\* reasoning) and adds one to the question count, after the execution loop has
\* returned and before the response is returned; the conversation memory is not
\* modified before or during the execution loop.
C3_MemoryUpdatedOnlyAfterLoop ==
    /\ (lastOp = "query" /\ pc \in {"classify", "execute", "record"}) =>
            Memory = snap.memory
    /\ (QueryEnded /\ cur.loop = "returned") =>
            /\ history = Append(snap.memory.history, RecordedEntry)
            /\ session.question_count = snap.memory.session.question_count + 1
            /\ trace = <<"classifier", "executor", "add_interaction">>
            /\ response.kind = "response"

\* C4: when the execution loop raises on an in-scope question, query returns a
\* response with is_csv_related = true, no used tools, an answer holding the
\* error text and the exception text in metadata, and appends no Conversation
\* Entry: the interaction count and the question count stay as they were.
C4_LoopFailureBecomesAnswer ==
    (QueryEnded /\ cur.loop = "raised") =>
        /\ response.kind = "response"
        /\ response.is_csv_related = TRUE
        /\ response.used_tools = <<>>
        /\ response.answer = "Error processing question: " \o cur.error
        /\ response.metadata = [error |-> cur.error]
        /\ history = snap.memory.history
        /\ session.question_count = snap.memory.session.question_count

\* C4 happens: the loop raised after it had called a tool, with earlier entries stored
C4_Witness ==
    /\ QueryEnded /\ cur.loop = "raised"
    /\ usage # snap.usage
    /\ history # <<>>

\* C5: when the scope classifier's call raises, the exception leaves query (no
\* response is returned), the execution loop is not called, and the conversation
\* memory stays as it was.
C5_ClassifierFailurePropagates ==
    (QueryEnded /\ cur.verdict = "raises") =>
        /\ dataframe # NoFrame
        /\ response = [kind |-> "raised", exception |-> cur.error]
        /\ trace = <<"classifier">>
        /\ usage = snap.usage
        /\ Memory = snap.memory

\* C5 happens: the classifier raised with a conversation already stored
C5_Witness ==
    /\ QueryEnded /\ cur.verdict = "raises"
    /\ history # <<>>

\* a direct CSVLoader.load_csv call has just returned
LoadEnded == lastOp = "loader.load_csv"

\* the path names no file, does not end in ".csv" whatever the case of its
\* letters, or names a file of more than 100 MB
Rejectable(p) ==
    \/ p = PathMissing
    \/ Len(p) < 4
    \/ Lower(SubSeq(p, Len(p) - 3, Len(p))) # <<".", "c", "s", "v">>
    \/ GetSize(p) > 100 * 1024 * 1024

\* C6: load_csv on a path that does not exist, does not end in .csv or names a
\* file over the maximum size returns false without calling the parser, and the
\* loader's dataframe, file path and metadata are what they were before the call.
C6_RejectedLoadChangesNothing ==
    (LoadEnded /\ Rejectable(load_result.path)) =>
        /\ load_result.ok = FALSE
        /\ load_result.parsed = FALSE
        /\ <<dataframe, file_path, metadata>> = load_result.before

\* C6 happens: an oversized file is rejected while another dataset is loaded
C6_Witness ==
    /\ LoadEnded
    /\ load_result.path = PathHuge
    /\ load_result.before[1] # NoFrame
    /\ metadata # NoMeta

\* C7: in every reachable state of the loader, metadata is present exactly when
\* a dataframe is held, and its file path, shape and columns are those of the
\* dataframe held now.
C7_MetadataDescribesDataframe ==
    /\ (metadata # NoMeta) <=> (dataframe # NoFrame)
    /\ (metadata # NoMeta) =>
            /\ metadata.file_path = file_path
            /\ dataframe.kind = "frame"
            /\ metadata.shape = dataframe.shape
            /\ metadata.columns = dataframe.columns

\* the entry and the two chat messages of the n-th add_interaction call
NthEntry(n) ==
    [human_message |-> "Q" \o ToString(n), ai_response |-> "A" \o ToString(n),
     metadata |-> [kind |-> "empty"]]

NthMessage(n, role) ==
    [role |-> role,
     content |-> [kind |-> "text",
                  text |-> (IF role = "human" THEN "Q" ELSE "A") \o ToString(n)]]

\* C8: with the maximum of 30 interactions, after an add_interaction that brings
\* the stored entries above 30 the semantic history holds the 30 most recent
\* entries in order and the chat history holds the user and assistant turns of
\* the 10 most recent entries (20 messages) in order.
C8_RetentionAfterOverflow ==
    (lastOp = "add_interaction" /\ adds > 30) =>
        /\ Len(history) = 30
        /\ \A i \in 1..30 : history[i] = NthEntry(adds - 30 + i)
        /\ Len(chat) = 20
        /\ \A k \in 1..10 :
              /\ chat[2 * k - 1] = NthMessage(adds - 10 + k, "human")
              /\ chat[2 * k] = NthMessage(adds - 10 + k, "ai")

\* C8 happens: the second overflowing addition in a row
C8_Witness ==
    /\ lastOp = "add_interaction"
    /\ adds = 32
    /\ session.csv_file # NoPath

\* questions that the heuristic takes as follow-ups once there is a history
ProbeQuestions ==
    { <<"W","h","y","?">>,
      <<"W","h","a","t"," ","a","b","o","u","t"," ","i","t","?">>,
      <<"a"," ","b"," ","c"," ","d"," ","e">> }

\* C9: clear_memory leaves no stored entry, an empty chat history, question
\* count 0 and no CSV file name, so that get_conversation_context returns "No
\* previous conversation." and is_follow_up_question returns false; the loader's
\* dataset, the column context and the tool usage counters stay as they were.
C9_ClearMemoryResets ==
    [][(lastOp' = "clear_conversation") =>
            /\ history' = <<>>
            /\ chat' = <<>>
            /\ session'.question_count = 0
            /\ session'.csv_file = NoPath
            /\ get_conversation_context(Memory') = <<"No previous conversation.">>
            /\ \A q \in ProbeQuestions : ~is_follow_up_question(Memory', q)
            /\ UNCHANGED <<dataframe, file_path, metadata, column_context, usage>>
      ]_vars

\* C9 happens: the conversation is cleared with a dataset loaded, its column
\* context in the prompt and a tool already counted
C9_Witness ==
    /\ lastOp = "clear_conversation"
    /\ dataframe # NoFrame
    /\ column_context # NoContext
    /\ usage # InitialUsage

\* the fifteen indicator strings
IndicatorSet ==
    { <<"a","l","s","o">>, <<"t","o","o">>, <<"a","n","d">>,
      <<"w","h","a","t"," ","a","b","o","u","t">>,
      <<"h","o","w"," ","a","b","o","u","t">>,
      <<"c","a","n"," ","y","o","u">>,
      <<"t","e","l","l"," ","m","e"," ","m","o","r","e">>,
      <<"e","x","p","l","a","i","n">>, <<"w","h","y">>, <<"t","h","a","t">>,
      <<"t","h","i","s">>, <<"i","t">>, <<"t","h","e","m">>,
      <<"t","h","o","s","e">>, <<"t","h","e","s","e">> }

\* some indicator occurs in the lower-cased text
HasIndicator(q) ==
    \E ind \in IndicatorSet : \E i \in 1..Len(q) :
        /\ i + Len(ind) - 1 <= Len(q)
        /\ \A j \in 1..Len(ind) : LowerChar(q[i + j - 1]) = ind[j]

\* the number of whitespace-separated words: the positions where a word starts
WordCount(q) ==
    Cardinality({i \in 1..Len(q) :
        /\ q[i] \notin {" ", "\t", "\n"}
        /\ (i = 1 \/ q[i - 1] \in {" ", "\t", "\n"})})

\* C10: is_follow_up_question returns false whenever no Conversation Entry is
\* stored; with an entry stored it returns true exactly when the lower-cased
\* question contains one of the fifteen indicators or has fewer than 5 words.
C10_FollowUpHeuristic ==
    (lastOp = "is_follow_up_question") =>
        /\ follow_up.asked
        /\ follow_up.result =
              (/\ Len(history) > 0
               /\ (HasIndicator(question) \/ WordCount(question) < 5))

\* C10 happens: with an entry stored, a question of five words and no indicator
\* is not taken as a follow-up
C10_Witness ==
    /\ lastOp = "is_follow_up_question"
    /\ Len(history) > 0
    /\ WordCount(question) = 5
    /\ ~follow_up.result

\* C11: whenever CSVAgent.load_csv returns success the column context is the
\* report on the newly loaded dataset and the execution loop has been rebuilt
\* from a prompt holding it; and whenever the execution loop runs for a
\* question, its prompt describes the dataset the loader holds, never an
\* earlier dataset or none.
C11_LoopDescribesLoadedDataset ==
    /\ (lastOp = "load_csv" /\ load_result.ok) =>
            /\ load_result.returned.success
            /\ column_context = gather_full_column_context(metadata)
            /\ metadata = generate_metadata(dataframe, file_path)
            /\ executor = initialize_agent(column_context)
    /\ (pc = "execute") =>
            /\ dataframe.kind = "frame"
            /\ executor.prompt_context =
                   gather_full_column_context(generate_metadata(dataframe, file_path))

\* C12: a CSVAgent.load_csv call that fails returns success = false with no
\* metadata and leaves the stored entries, the chat history, the session
\* metadata, the column context, the execution loop and the tool usage
\* counters as they were before the call.
C12_FailedLoadLeavesAgentAlone ==
    [][(lastOp' = "load_csv" /\ ~load_result'.ok) =>
            /\ load_result'.returned.kind = "LoadCSVResult"
            /\ load_result'.returned.success = FALSE
            /\ load_result'.returned.metadata = NoMeta
            /\ UNCHANGED <<history, chat, session, column_context, executor, usage>>]_vars

\* C12 happens: a load failed at metadata generation while the agent held a
\* dataset, stored entries and used tools
C12_Witness ==
    /\ lastOp = "load_csv" /\ ~load_result.ok
    /\ load_result.stage = "metadata"
    /\ metadata # NoMeta
    /\ history # <<>>
    /\ usage # InitialUsage

\* C13: ToolManager.execute_tool always returns a Tool Execution Result.  For
\* an unknown name the result is a failure listing the available tools and no
\* counter moves; for a registered tool whose execute raises it is a failure
\* holding the exception text and no counter moves; otherwise it is a success
\* and exactly that tool's counter goes up by one.  The usage statistics
\* always equal the number of calls per tool whose execute returned.
C13_ExecuteToolCountsSuccesses ==
    /\ usage = successes
    /\ [][/\ usage' = successes'
          /\ (lastOp' = "execute_tool") =>
                LET r == tool_result' IN
                /\ r.kind = "ToolExecutionResult"
                /\ IF r.tool_name \notin Range(tools)
                   THEN /\ r.success = FALSE
                        /\ r.result = <<"Tool '", r.tool_name,
                                        "' not found. Available: ", tools>>
                        /\ usage' = usage
                   ELSE IF successes' # successes
                   THEN /\ r.success = TRUE
                        /\ usage' = [usage EXCEPT ![r.tool_name] = @ + 1]
                   ELSE /\ r.success = FALSE
                        /\ r.result[1] = "Error: "
                        /\ r.metadata = [error |-> r.result[2]]
                        /\ usage' = usage]_vars

\* C13 happens: a registered tool raised after two calls had been counted
C13_Witness ==
    /\ lastOp = "execute_tool"
    /\ tool_result.tool_name \in Range(tools)
    /\ ~tool_result.success
    /\ SumOf(usage, DOMAIN usage) = 2

\* C14: while no dataset is loaded (no load has succeeded since the loader was
\* constructed or last cleared), executing any registered tool with any
\* argument returns the fixed text "No CSV data is currently loaded. Please
\* load a CSV file first." and does not raise.
C14_ToolsDeclineWithoutDataset ==
    (metadata = NoMeta) =>
        /\ \A t \in Range(tools), arg \in ToolArgs, fails \in BOOLEAN :
               tool_execute(t, arg, fails) = [kind |-> "returned", text |-> <<NoCsvText>>]
        /\ (lastOp = "execute_tool" /\ tool_result.tool_name \in Range(tools)) =>
               /\ tool_result.success
               /\ tool_result.result = <<NoCsvText>>

C16_DefaultToolsIncludeSearch ==
    (enabled = enabled_tools) =>
        /\ get_available_tools # <<>>
        /\ {"get_data_summary", "get_column_info", "search_data", "get_basic_stats",
            "get_value_counts"} \subseteq Range(get_available_tools)

\* C17: for every declared memory type (buffer, summary, sliding_window) the
\* factory returns a buffer memory manager and raises nothing.
C17_FactoryNeverRaises ==
    /\ manager.requested \in MemoryTypes
    /\ manager.kind = "BufferMemoryManager"

\* C18: once the browser application has handled an upload, the temporary
\* file it wrote for it no longer exists, whether the load succeeded or failed.
C18_TemporaryFileRemoved ==
    (lastOp = "browser.upload" /\ browser.upload \in {"loaded", "failed"}) =>
        load_result.path \notin browser.temp_files

\* the messages come in pairs: a user message, then an assistant message
Paired(messages) ==
    /\ Len(messages) % 2 = 0
    /\ \A k \in 1..(Len(messages) \div 2) :
          /\ messages[2 * k - 1].role = "user"
          /\ messages[2 * k].role = "assistant"

\* C19: in the browser application, after any sequence of typed questions and
\* suggested-question clicks, also when answering raised, the chat transcript
\* is a sequence of (user message, assistant message) pairs.
C19_TranscriptIsPaired ==
    (browser.pc = "idle") => Paired(browser.messages)

\* C20: the console's interactive loop is left only on the input quit, exit or
\* q (in any case) or on a keyboard interruption; any other exception raised
\* while a turn is handled is displayed and the loop prompts again.
C20_LoopLeftOnlyOnQuitOrInterrupt ==
    [][/\ (console.pc \in {"prompt", "asking"} /\ console'.pc \notin {"prompt", "asking"}) =>
             /\ console'.pc = "ended"
             /\ \/ console'.left_by = "interrupt"
                \/ /\ console'.left_by = "quit"
                   /\ Lower(console'.input) \in
                         {<<"q", "u", "i", "t">>, <<"e", "x", "i", "t">>, <<"q">>}
       /\ (console' # console /\ console'.raised # "") =>
             /\ console'.pc = "prompt"
             /\ console'.shown = <<"Error: ", console'.raised>>
       /\ (console.pc = "prompt" /\ console' # console
             /\ Lower(console'.input) \notin
                   {<<"q", "u", "i", "t">>, <<"e", "x", "i", "t">>, <<"q">>}) =>
             console'.left_by \in {"none", "interrupt"}]_vars

\* C20 happens: the loop prompts again after a question whose handling raised
\* once the agent had answered and recorded it, and after the classifier raised
C20_Witness ==
    /\ console.pc = "prompt"
    /\ lastOp = "console.show"
    /\ console.raised \in ExceptionTexts
    /\ history # <<>>

\* C23: the transcript handed to the classifier pairs the chat history
\* positionally, messages 2k-1 and 2k, an odd last message dropped, and in every
\* reachable state, after load_csv injected the dataset-context assistant turn
\* included, each "Human:" line holds a message sent by the user and the paired
\* "Assistant:" line a message sent by the assistant.
C23_TranscriptLinesKeepRoles ==
    (lastOp = "query" /\ pc = "classify") =>
        /\ Len(cur.transcript) = Len(snap.memory.chat) \div 2
        /\ \A k \in 1..Len(cur.transcript) :
              /\ cur.transcript[k].Human = snap.memory.chat[2 * k - 1].content
              /\ cur.transcript[k].Assistant = snap.memory.chat[2 * k].content
              /\ snap.memory.chat[2 * k - 1].role = "human"
              /\ snap.memory.chat[2 * k].role = "ai"

\* C25: after an in-scope query whose execution loop returned, and with the
\* retention maximum not exceeded, the chat history has grown by exactly two
\* messages, the user's question and the assistant's answer.
C25_ChatGrowsByOnePair ==
    (QueryEnded /\ cur.loop = "returned" /\ Len(history) <= max_interactions) =>
        chat = snap.memory.chat \o
                  <<HumanMessage(Text(cur.question)), AIMessage(Text(cur.answer))>>

\* the claim as stated: whenever get_status reports a loaded CSV, the memory
\* summary names the loaded file
C26_SummaryNamesLoadedFile ==
    (lastOp = "clear_conversation" /\ get_status.csv_loaded) =>
        get_status.memory_summary.csv_file = PathName(get_status.csv_file)

\* C26: the memory summary's csv_file is the file name of the dataset of the
\* most recent load_csv that returned success, until clear_conversation resets
\* it to none; ask_question and a load_csv that fails leave it as it was.  It
\* names the loaded dataset only while no clear_conversation has followed the
\* load.
C26_SummaryFollowsLoadAndClear ==
    [][/\ (lastOp' = "load_csv" /\ load_result'.ok) =>
             /\ get_status'.csv_loaded
             /\ get_status'.memory_summary.csv_file = PathName(get_status'.csv_file)
       /\ (lastOp' = "load_csv" /\ ~load_result'.ok) =>
             get_status'.memory_summary.csv_file = get_status.memory_summary.csv_file
       /\ (lastOp' = "clear_conversation") =>
             /\ get_status'.memory_summary.csv_file = NoPath
             /\ get_status'.csv_loaded = get_status.csv_loaded
       /\ (lastOp' = "query") =>
             get_status'.memory_summary.csv_file = get_status.memory_summary.csv_file]_vars

\* C26 happens: the conversation was cleared while a dataset was loaded and
\* questions about it had been answered
C26_Witness ==
    /\ lastOp = "clear_conversation"
    /\ get_status.csv_loaded
    /\ metadata # NoMeta
    /\ get_status.memory_summary.csv_file = NoPath
    /\ usage # InitialUsage

\* the dataset-context assistant turn of the file the session names
HasContextTurn ==
    \E i \in DOMAIN chat :
        chat[i] = AIMessage(ContextMessage(session.csv_file, session.csv_summary))

\* the claim as stated: while the session names a CSV file, the chat history
\* holds that file's dataset-context turn
C27_ContextTurnAlwaysPresent ==
    (session.csv_file # NoPath) => HasContextTurn

\* C27: while the session names a CSV file, the chat history holds that file's
\* dataset-context assistant turn as long as at most max_interactions exchanges
\* were added since the last clear_memory; every add_interaction beyond that
\* rebuilds the chat history from the last 10 entries and drops the context
\* turn, which is back only after the next set_csv_context.
C27_ContextTurnUntilOverflow ==
    (session.csv_file # NoPath) =>
        (HasContextTurn <=>
            \/ session.question_count <= max_interactions
            \/ lastOp = "set_csv_context")

\* C27 happens: the 31st exchange was added after the dataset context was set
C27_Witness ==
    /\ session.csv_file # NoPath
    /\ lastOp = "add_interaction"
    /\ session.question_count = max_interactions + 1
    /\ ~HasContextTurn

\* C28: for the buffer memory manager, at every moment total_interactions is at
\* most max_interactions, question_count is the number of add_interaction calls
\* since construction or the last clear_memory, question_count is at least
\* total_interactions, and has_context is true exactly when total_interactions
\* is above zero.
C28_SummaryCounts ==
    LET s == get_memory_summary(Memory) IN
    /\ s.total_interactions <= max_interactions
    /\ s.question_count = adds
    /\ s.question_count >= s.total_interactions
    /\ s.has_context <=> (s.total_interactions > 0)
    /\ s.total_interactions = IF adds <= max_interactions THEN adds ELSE max_interactions

\* C28 happens: more exchanges were added than the manager retains
C28_Witness ==
    LET s == get_memory_summary(Memory) IN
    /\ s.question_count = max_interactions + 2
    /\ s.total_interactions = max_interactions
    /\ s.has_context

\* C24: for every registered tool, a call through the tool object the execution
\* loop is given returns the text that execute_tool returns as result for the
\* same tool and arguments, and adds one to that tool's counter; so it does for
\* the tools without arguments (get_data_summary, get_analytics_classification,
\* list_measures, list_dimensions), whose tool object is called with one
\* free-text argument.  Taken for the calls in which the tool itself has no
\* reason to raise.
C24_WrapperMatchesExecuteTool ==
    (lastOp = "wrapper_call" /\ ~tool_result.fails) =>
        LET direct == execute_tool(tool_result.before, tools, tool_result.tool_name,
                                   tool_result.args,
                                   bind_execute(tool_result.tool_name, tool_result.args,
                                                tool_result.fails))
        IN /\ tool_result.text = direct.result.result
           /\ usage[tool_result.tool_name] =
                 tool_result.before[tool_result.tool_name] + 1

\* C29: on a loaded table get_analytics_summary returns a measures list and a
\* dimensions list that partition the columns: every column is in exactly one
\* of the two, and measure_count + dimension_count = total_columns; also with a
\* model attached whose classification of a column may differ from call to call.
C29_MeasuresAndDimensionsPartition ==
    (lastOp = "get_analytics_summary" /\ is_loaded /\ dataframe.kind = "frame") =>
        LET s == returned.value IN
        /\ s.kind = "summary"
        /\ \A c \in Range(dataframe.columns) :
              (c \in Range(s.measures)) # (c \in Range(s.dimensions))
        /\ Range(s.measures) \cup Range(s.dimensions) = Range(dataframe.columns)
        /\ s.measure_count + s.dimension_count = s.total_columns

\* the lines of the reply that hold a numbered or dashed question
QuestionsIn(outcome) ==
    IF outcome.kind # "reply" THEN <<>>
    ELSE SelectSeq([i \in DOMAIN outcome.lines |-> parse_line(outcome.lines[i])],
                   LAMBDA q : q # <<>>)

\* C21: with a dataset loaded suggest_questions returns either exactly 10
\* questions parsed from the LLM reply or, in every other case (no LLM attached,
\* the LLM call raises, the number of parsed questions is not 10), the complete
\* list of the deterministic basic-suggestion generator, of at most 10 items; it
\* never returns fewer than 10 LLM questions and never raises.  With nothing
\* loaded it returns the one load-a-CSV-first item.
C21_TenQuestionsOrBasicList ==
    (lastOp = "suggest_questions") =>
        LET value  == returned.value
            basic  == generate_basic_suggestions(dataframe, metadata)
            parsed == QuestionsIn(returned.outcome)
        IN
        /\ ~is_loaded => value = <<LoadFirst>>
        /\ is_loaded =>
              /\ \/ /\ Len(value) = 10
                    /\ llm # NoLLM
                    /\ returned.outcome.kind = "reply"
                    /\ Len(parsed) >= 10
                    /\ value = SubSeq(parsed, 1, 10)
                 \/ /\ value = basic
                    /\ Len(value) <= 10
              /\ (llm = NoLLM \/ returned.outcome.kind # "reply" \/ Len(parsed) < 10) =>
                    value = basic
              /\ (llm # NoLLM /\ dataframe.kind = "frame" /\ metadata # NoMeta
                     /\ Len(parsed) >= 10) =>
                    value = SubSeq(parsed, 1, 10)

\* C21 happens: a reply with nine questions and a line that is no question was
\* answered with the basic list of a table that has numeric columns
C21_Witness ==
    /\ lastOp = "suggest_questions"
    /\ is_loaded /\ llm # NoLLM
    /\ returned.outcome.kind = "reply"
    /\ Len(returned.outcome.lines) = 10
    /\ Len(QuestionsIn(returned.outcome)) = 9
    /\ Len(returned.value) = 6

\* C22: analyze_and_plot rejects an invalid request before anything is drawn.
\* An analysis type other than distribution, sum, average and count fails with
\* an error that names the four valid types, whatever dimension and measure are
\* given; a sum or average request whose dimension is empty or no column fails
\* with an error that names the dimension and lists the table's columns; a
\* request other than count whose measure is no column fails with an error that
\* lists the table's columns.
C22_InvalidPlotRequestsRejected ==
    (lastOp = "analyze_and_plot" /\ dataframe.kind = "frame") =>
        LET r == returned.value
            columns == dataframe.columns
        IN
        /\ (returned.analysis_type \notin AnalysisTypes) =>
              /\ r.kind = "raised" /\ ~r.rendered
              /\ AnalysisTypes \subseteq Range(r.message)
        /\ (returned.analysis_type \in {"sum", "average"}
              /\ returned.dimension \notin Range(columns)) =>
              /\ r.kind = "raised" /\ ~r.rendered
              /\ r.message = <<"Dimension", " '", returned.dimension,
                               "' not found in dataframe columns: ">>
              /\ r.listed = columns
        /\ (returned.analysis_type # "count" /\ returned.measure \notin Range(columns)) =>
              /\ r.kind = "raised" /\ ~r.rendered
              /\ r.listed = columns

\* the result column an aggregation specification stands for
ResultColumn(spec) ==
    <<spec[1], CASE spec[2] = "sum" -> "_sum"
                 [] spec[2] \in {"average", "avg"} -> "_avg"
                 [] OTHER -> "_count_distinct">>

\* C30: when group_and_aggregate is given valid group columns and a valid list
\* of aggregations, every aggregation listed in the "Aggregations:" line of the
\* result has its own result column (<col>_sum, <col>_avg or
\* <col>_count_distinct), also when one column is requested with two
\* different operations.
C30_EveryAggregationHasItsColumn ==
    (lastOp = "group_and_aggregate" /\ returned.value.kind = "grouped") =>
        /\ Len(returned.value.aggregations) = Len(returned.specs)
        /\ \A i \in DOMAIN returned.specs :
              ResultColumn(returned.specs[i]) \in Range(returned.value.columns)

====
